---- MODULE Spec2Model ----
(***************************************************************************)
(* Model of thooton/aspen: a speech-to-speech pipeline of six stage loops  *)
(* joined by FIFO queues, one lock-guarded Conversation and two broadcast  *)
(* flags (speaking_event, exit_event).                                     *)
(*                                                                         *)
(* Text is a sequence of one-character strings, so that str.strip,         *)
(* str.split, str.startswith, str.endswith and the sentence regex are      *)
(* computed character by character as Python computes them.                *)
(*                                                                         *)
(* Specifications:                                                         *)
(*   Spec       the audio sinks (Speaker.loop, TwOutgoing.run), the        *)
(*              telephony source (TwIncoming.loop), the Conversation and   *)
(*              the Segmenter's flag transitions, interleaved.             *)
(*   SpecSplit  segment_text_by_regex applied to bounded texts.            *)
(*   SpecResp   Responder.loop streaming an LLM response in fragments.     *)
(***************************************************************************)
EXTENDS Integers, Sequences, FiniteSets, TLC

VARIABLES
    \* broadcast flags
    speaking,           \* speaking_event (threading.Event)
    exit,               \* exit_event (threading.Event)
    \* Conversation
    messages,           \* Conversation.messages: sequence of [role, content]
    n_user,             \* user turns appended so far (bounds the run)
    \* Segmenter
    seg_pc,             \* position in Segmenter.loop
    recording,          \* Segmenter.recording
    speech_samples,     \* Segmenter.speech_samples
    silence_samples,    \* Segmenter.silence_samples
    \* AudioQ and its producer
    frontend,           \* "local" (main_local.py) or "twilio" (main_twilio.py)
    audio_queue,        \* AudioQ: sequence of clips [id, text, len]; stale is history
    n_clips,            \* clips put on AudioQ so far
    \* Speaker (local sink)
    spk_pc, spk_clip, spk_words, spk_i,
    spk_woken,          \* Event.set() has woken the Speaker's blocked wait
    \* TwIncoming / TwOutgoing (telephony)
    in_pc, stream_sid_queue,
    out_pc, stream_sid, word_queue, last_update_time, time_passed, out_clip, ws_out,
    now,                \* time.monotonic(), in ticks
    \* history variables (read by the properties only)
    stop_seen,          \* TwIncoming has processed a stop event
    stale_out,          \* a clip that was in AudioQ when speaking became set got played or sent
    spk_disturbed,      \* speaking or exit was set at some point of the current clip
    spk_userin,         \* a user turn was appended during the current clip
    spk_base,           \* assistant text the current clip's words are joined onto
    spk_k,              \* words accounted when speaking became set in the clip, or -1
    wq_hist,            \* the (clip, index) of each entry of word_queue, of the entries
                        \* purged and of the words appended from it, and what the last
                        \* call of WordQueue.update found
    \* segment_text_by_regex under SpecSplit
    split_pc, split_text, complete_sentences, remaining_text,
    \* Responder under SpecResp
    res_pc, transcript_queue, user_message, attempt, response, stream_rest, fragment, buffer,
    response_queue,
    res_woken,          \* Event.set() has woken the Responder's blocked wait
    res_pushed,         \* history: the entries pushed to SentQ for the current stream
    res_end,            \* history: how the current stream ended, or "none"
    res_messages,       \* messages of Responder.loop: the list that append returned,
                        \* as references to the records of Conversation.messages
    res_sent,           \* history: the contents of that list when append returned it
    \* Segmenter's queues and buffers under SpecSeg and SpecWin
    seg_in,             \* Segmenter.input: sequence of frames (sequences of samples)
    seg_buffer,         \* Segmenter.buffer (<<>> for None)
    pre_buffer,         \* Segmenter.pre_buffer: the last windows, at most 25
    current_speech,     \* Segmenter.current_speech: sequence of windows
    segment_queue,      \* UttQ (Segmenter.output): sequence of utterances
    n_samples,          \* history: samples the source has put on seg_in
    seg_got,            \* history: the frames the Segmenter has dequeued, concatenated
    seg_windows,        \* history: the windows the Segmenter has run the VAD on
    vad_max,            \* history: the highest VAD probability of a window so far
    vad_run,            \* history: verdict and length of the current run of equal verdicts
    \* Conversation under SpecConv
    conv_call,          \* history: the last call of Conversation.append and the list it
                        \* found, with the number of calls so far
    \* Transcriber under SpecTr
    tr_pc,              \* position of Transcriber.loop
    tr_audio,           \* the utterance the Transcriber has dequeued
    tr_attempt,         \* attempt of the for loop in Transcriber.loop
    tr_hist,            \* history: the ASR outcomes and the puts for the current utterance
    \* Synthesizer under SpecSyn
    syn_pc,             \* position of Synthesizer.loop
    syn_text,           \* the sentence the Synthesizer has dequeued
    syn_attempt,        \* attempt of the for loop in Synthesizer.loop
    audio_array,        \* audio_array of Synthesizer.loop: 0 for None, else its length
    syn_hist,           \* history: the requests and the puts for the current sentence
    \* Silero VAD under SpecDrain
    vad_of,             \* the VAD probability of the k-th window of the input
    \* the server of main_twilio.py under SpecHttp
    CLOSED_IDS,         \* CLOSED_IDS: the connection IDs answered over HTTP
    conns               \* per connection ID: how far it got, the path of its request,
                        \* the status of the response, whether its pipeline was created

flagVars  == <<speaking, exit>>
convVars  == <<messages, n_user>>
segVars   == <<seg_pc, recording, speech_samples, silence_samples>>
audioVars == <<audio_queue, n_clips>>
spkVars   == <<spk_pc, spk_clip, spk_words, spk_i>>
inVars    == <<in_pc, stream_sid_queue>>
outVars   == <<out_pc, stream_sid, word_queue, last_update_time, time_passed,
               out_clip, ws_out>>
splitVars == <<split_pc, split_text, complete_sentences, remaining_text>>
respVars  == <<res_pc, transcript_queue, user_message, attempt, response, stream_rest, fragment,
               buffer, response_queue, res_pushed, res_end, res_messages, res_sent>>
refVars   == <<res_messages, res_sent>>
histVars  == <<stop_seen, stale_out, spk_disturbed, spk_userin, spk_base, spk_k, wq_hist>>
winVars   == <<seg_in, seg_buffer, pre_buffer, current_speech, segment_queue, n_samples,
               seg_got, seg_windows, vad_max, vad_run>>

\* The variables that only the specifications of single stages use
trVars    == <<tr_pc, tr_audio, tr_attempt, tr_hist>>
synVars   == <<syn_pc, syn_text, syn_attempt, audio_array, syn_hist>>
lateVars  == <<vad_of, CLOSED_IDS, conns>>
moreVars  == <<conv_call, trVars, synVars, lateVars>>
extraVars == <<winVars, moreVars>>

vars == <<flagVars, convVars, segVars, frontend, audioVars, spkVars, spk_woken,
          inVars, outVars, now, splitVars, respVars, res_woken, histVars, extraVars>>

\* The variables of the other specifications, which a step of Spec leaves alone
restVars  == <<frontend, splitVars, respVars, res_woken, extraVars>>

----------------------------------------------------------------------------
(* Bounds of the model *)

MaxClips  == 1      \* clips the Synthesizer puts on AudioQ in one run
MaxUser   == 1      \* user turns the Responder appends in one run
MaxTime   == 2      \* ticks of time.monotonic() in one run
MaxSids   == 1      \* start events received in one run
MaxLen    == 6      \* characters of a text handed to the sentence splitter
MaxFragment == 16   \* characters of one fragment of an LLM stream
MaxFailAfter == 0   \* characters an LLM stream has delivered when it fails
MaxFrames == 2      \* frames waiting in the Segmenter's input queue
MaxWindows == 54    \* window-sized frames the source delivers under SpecSeg
MaxMixed  == 56     \* samples the source delivers under SpecWin
MaxAppends == 3     \* calls of Conversation.append under SpecConv
MaxUtterances == 2  \* utterances put on UttQ under SpecTr
MaxSentences == 2   \* sentences put on SentQ under SpecSyn

\* Segmenter.window_size is 512 or 256 samples (segmenter.py:67); the model
\* scales it down, the code only compares lengths with it and slices at it.
window_size == 2

\* segmenter.py:23-26
SILENCE_LIMIT == 24
MIN_SPEECH_CHUNKS == 3

----------------------------------------------------------------------------
(* Python string helpers on sequences of characters *)

Whitespace == {" ", "\n", "\t"}

Last(s) == s[Len(s)]
Max(a, b) == IF a >= b THEN a ELSE b
Range(f) == { f[i] : i \in DOMAIN f }

RECURSIVE LStrip(_)
LStrip(s) ==
    IF s = <<>> THEN s
    ELSE IF Head(s) \in Whitespace THEN LStrip(Tail(s)) ELSE s

RECURSIVE RStrip(_)
RStrip(s) ==
    IF s = <<>> THEN s
    ELSE IF Last(s) \in Whitespace THEN RStrip(SubSeq(s, 1, Len(s) - 1)) ELSE s

Strip(s) == RStrip(LStrip(s))

StartsWith(s, p) == Len(s) >= Len(p) /\ SubSeq(s, 1, Len(p)) = p
EndsWith(s, p) == Len(s) >= Len(p) /\ SubSeq(s, Len(s) - Len(p) + 1, Len(s)) = p

\* str.split(): the maximal runs of non-whitespace characters, in order
RECURSIVE SplitWords(_, _, _)
SplitWords(s, cur, acc) ==
    IF s = <<>> THEN (IF cur = <<>> THEN acc ELSE Append(acc, cur))
    ELSE IF Head(s) \in Whitespace
         THEN SplitWords(Tail(s), <<>>, IF cur = <<>> THEN acc ELSE Append(acc, cur))
         ELSE SplitWords(Tail(s), Append(cur, Head(s)), acc)

Split(s) == SplitWords(s, <<>>, <<>>)

----------------------------------------------------------------------------
(* Conversation (conversation.py) *)

\* A mutation of Spacer: a space before every appended text.
SpacerAlways(last_content, content) ==
    IF last_content # <<>> THEN <<" ">> ELSE <<>>

SpacerNever(last_content, content) == <<>>

\* conversation.py:19-26
Spacer(last_content, content) ==
    IF last_content # <<>>
       /\ ~(\E p \in {<<".">>, <<"!">>, <<"?">>, <<",">>} : StartsWith(content, p))
    THEN <<" ">> ELSE <<>>

\* A mutation of ConvAppend: every append adds a new entry.
ConvAppendNoCollapse(msgs, role, content) ==
    Append(msgs, [role |-> role, content |-> content])

\* A mutation of Conversation.append: the text is joined onto the last entry
\* whatever its role.
ConvAppendOntoLast(msgs, role, content) ==
    IF msgs # <<>>
    THEN [msgs EXCEPT ![Len(msgs)].content = @ \o Spacer(@, content) \o content]
    ELSE Append(msgs, [role |-> role, content |-> content])

\* Conversation.append, the list it leaves in self.messages (the body runs
\* under self.lock, so it is one step; content is always a str).
ConvAppend(msgs, role, content) ==
    IF msgs # <<>> /\ Last(msgs).role = role
    THEN [msgs EXCEPT ![Len(msgs)].content = @ \o Spacer(@, content) \o content]
    ELSE Append(msgs, [role |-> role, content |-> content])

----------------------------------------------------------------------------
(* Inputs of the sinks *)

\* The clips (text, audio_data) the Synthesizer may hand over: "a ,b c" (three
\* words, one of which begins with a comma) and " " (no word at all). len is
\* len(audio_data) in samples; one tick of the model's clock is one sample
\* period, so a word of the first clip lasts two ticks.
Clips == { [text |-> <<"a", " ", ",", "b", " ", "c">>, len |-> 6],
           [text |-> <<" ">>, len |-> 1] }

Transcripts == { <<"u">> }
Sids == {"MZ1"}

NoClip == [id |-> 0, text |-> <<>>, len |-> 0, stale |-> FALSE]

\* wq_hist.upd outside a call of WordQueue.update
NoUpdate == [queue |-> <<>>, ids |-> <<>>, d |-> 0, messages |-> <<>>, spoken |-> 0]

\* Positions of Speaker.loop that hold a dequeued clip, and those after sd.play
ClipPcs == {"chk", "wait", "waiting", "chkexit", "append", "sdwait"}
PlayPcs == {"wait", "waiting", "chkexit", "append", "sdwait"}

\* The history variables that follow from the step itself.
Track ==
    /\ spk_disturbed' =
          IF spk_pc' \in ClipPcs
          THEN (spk_pc \in ClipPcs /\ spk_disturbed) \/ speaking' \/ exit'
          ELSE FALSE
    /\ spk_k' =
          IF spk_pc' \in PlayPcs
          THEN IF spk_pc \in PlayPcs /\ spk_k # -1 THEN spk_k
               ELSE IF speaking' THEN spk_i' ELSE -1
          ELSE -1

histFixed == <<stop_seen, stale_out, spk_userin, spk_base, wq_hist>>

----------------------------------------------------------------------------
(* Segmenter.loop (segmenter.py) as the other stages see it: one step per   *)
(* window, the VAD verdict is_speech is the input, the audio payloads are   *)
(* left alone. SegmenterTurn further down is the loop with its payloads.    *)

HysteresisNoReset(rec, speech, silence, is_speech) ==
    IF ~rec
    THEN LET n == IF is_speech THEN speech + 1 ELSE 0
         IN  IF n >= MIN_SPEECH_CHUNKS
             THEN [recording |-> TRUE, speech_samples |-> n, silence_samples |-> 0,
                   event |-> "start"]
             ELSE [recording |-> FALSE, speech_samples |-> n,
                   silence_samples |-> silence, event |-> "none"]
    ELSE LET n == IF is_speech THEN silence ELSE silence + 1
         IN  IF n >= SILENCE_LIMIT
             THEN [recording |-> FALSE, speech_samples |-> 0, silence_samples |-> n,
                   event |-> "end"]
             ELSE [recording |-> TRUE, speech_samples |-> speech,
                   silence_samples |-> n, event |-> "none"]

\* segmenter.py:117-135  the state machine on one window: the new recording
\* and counters, and what the turn does: "start" (speaking_event.set()),
\* "end" (the utterance is put, speaking_event.clear()) or "none".
\* current_speech holds at least the window of this turn in line 128.
Hysteresis(rec, speech, silence, is_speech) ==
    IF ~rec
    THEN LET n == IF is_speech THEN speech + 1 ELSE 0
         IN  IF n >= MIN_SPEECH_CHUNKS
             THEN [recording |-> TRUE, speech_samples |-> n, silence_samples |-> 0,
                   event |-> "start"]
             ELSE [recording |-> FALSE, speech_samples |-> n,
                   silence_samples |-> silence, event |-> "none"]
    ELSE LET n == IF is_speech THEN 0 ELSE silence + 1
         IN  IF n >= SILENCE_LIMIT
             THEN [recording |-> FALSE, speech_samples |-> 0, silence_samples |-> n,
                   event |-> "end"]
             ELSE [recording |-> TRUE, speech_samples |-> speech,
                   silence_samples |-> n, event |-> "none"]

\* segmenter.py:124, 135  the speaking flag after the turn
FlagAfter(event, flag) ==
    IF event = "start" THEN TRUE ELSE IF event = "end" THEN FALSE ELSE flag

\* segmenter.py:83  the loop test finds exit set: the loop ends
SegmenterExit ==
    /\ seg_pc = "run"
    /\ exit
    /\ seg_pc' = "done"
    /\ UNCHANGED <<flagVars, convVars, recording, speech_samples, silence_samples,
                   audioVars, spkVars, spk_woken, inVars, outVars, now, restVars,
                   histFixed>>
    /\ Track

\* segmenter.py:83-135  one turn of the loop that finds exit clear and gets a
\* full window with VAD verdict is_speech (a turn that gets no frame, lines
\* 85-88, or too short a chunk, lines 101-103, changes none of this state).
\* Event.set() wakes a thread blocked in speaking_event.wait(). The clips
\* that sit in AudioQ when the flag becomes set are marked stale.
SegmenterFrame(is_speech) ==
    /\ seg_pc = "run"
    /\ ~exit
    /\ LET h == Hysteresis(recording, speech_samples, silence_samples, is_speech) IN
          /\ recording' = h.recording
          /\ speech_samples' = h.speech_samples
          /\ silence_samples' = h.silence_samples
          /\ speaking' = FlagAfter(h.event, speaking)
          /\ IF h.event = "start"
             THEN /\ spk_woken' = (spk_woken \/ spk_pc = "waiting")
                  /\ res_woken' = (res_woken \/ res_pc = "retry_wait")
                  /\ audio_queue' = [i \in DOMAIN audio_queue |->
                                       [audio_queue[i] EXCEPT !.stale = TRUE]]
             ELSE UNCHANGED <<spk_woken, res_woken, audio_queue>>
    /\ UNCHANGED <<exit, convVars, seg_pc, n_clips, spkVars, inVars, outVars, now,
                   frontend, splitVars, respVars, extraVars, histFixed>>
    /\ Track

\* main_local.py:116-124  CTRL-C in the bootstrap sets exit
CtrlC ==
    /\ frontend = "local"
    /\ ~exit
    /\ exit' = TRUE
    /\ UNCHANGED <<speaking, convVars, segVars, audioVars, spkVars, spk_woken, inVars,
                   outVars, now, restVars, histFixed>>
    /\ Track

----------------------------------------------------------------------------
(* The producers of the sinks' inputs *)

\* synthesizer.py:126-127  the Synthesizer puts (text, audio_array) on AudioQ.
\* It tests the flags before the TTS request only, so the put can fall in any
\* state.
SynthesizerPut(clip) ==
    /\ n_clips < MaxClips
    /\ n_clips' = n_clips + 1
    /\ audio_queue' = Append(audio_queue, [id |-> n_clips + 1, text |-> clip.text,
                                           len |-> clip.len, stale |-> FALSE])
    /\ UNCHANGED <<flagVars, convVars, segVars, spkVars, spk_woken, inVars, outVars,
                   now, restVars, histFixed>>
    /\ Track

\* responder.py:113  the Responder appends the dequeued transcript as a user turn
ResponderAppendUser(t) ==
    /\ n_user < MaxUser
    /\ n_user' = n_user + 1
    /\ messages' = ConvAppend(messages, "user", t)
    /\ spk_userin' = (spk_userin \/ spk_pc \in PlayPcs)
    /\ UNCHANGED <<flagVars, segVars, audioVars, spkVars, spk_woken, inVars, outVars,
                   now, restVars, stop_seen, stale_out, spk_base, wq_hist>>
    /\ Track

----------------------------------------------------------------------------
(* Speaker.loop (speaker.py), the local sink *)

\* speaker.py:30  while not self.exit_event.is_set()
SpeakerLoop ==
    /\ frontend = "local"
    /\ spk_pc = "loop"
    /\ spk_pc' = IF exit THEN "done" ELSE "get"
    /\ UNCHANGED <<flagVars, convVars, segVars, audioVars, spk_clip, spk_words, spk_i,
                   spk_woken, inVars, outVars, now, restVars, histFixed>>
    /\ Track

\* speaker.py:32-35  self.input_queue.get(True, 0.25), Empty -> continue
SpeakerGet ==
    /\ frontend = "local"
    /\ spk_pc = "get"
    /\ IF audio_queue = <<>>
       THEN /\ spk_pc' = "loop"
            /\ UNCHANGED <<audio_queue, spk_clip>>
       ELSE /\ spk_pc' = "chk"
            /\ spk_clip' = Head(audio_queue)
            /\ audio_queue' = Tail(audio_queue)
    /\ UNCHANGED <<flagVars, convVars, segVars, n_clips, spk_words, spk_i, spk_woken,
                   inVars, outVars, now, restVars, histFixed>>
    /\ Track

\* speaker.py:36-56  if speaking: discard the clip; else sd.play, split the
\* text and enter the word loop. audio_duration / len(words) raises
\* ZeroDivisionError on a text without words, which ends the thread.
SpeakerCheck ==
    /\ frontend = "local"
    /\ spk_pc = "chk"
    /\ IF speaking
       THEN /\ spk_pc' = "loop"
            /\ spk_clip' = NoClip
            /\ UNCHANGED <<spk_words, spk_i, stale_out, spk_base, spk_userin>>
       ELSE LET words == Split(spk_clip.text) IN
            /\ stale_out' = (stale_out \/ spk_clip.stale)
            /\ spk_words' = words
            /\ spk_i' = 0
            /\ spk_base' = IF messages # <<>> /\ Last(messages).role = "assistant"
                           THEN Last(messages).content ELSE <<>>
            /\ spk_userin' = FALSE
            /\ spk_pc' = IF Len(words) = 0 THEN "crashed" ELSE "wait"
            /\ UNCHANGED spk_clip
    /\ UNCHANGED <<flagVars, convVars, segVars, audioVars, spk_woken, inVars, outVars,
                   now, restVars, stop_seen, wq_hist>>
    /\ Track

\* speaker.py:57  speaking_event.wait(word_duration) is entered: it returns
\* True at once when the flag is set (sd.stop, break), else the thread blocks.
SpeakerWaitEnter ==
    /\ frontend = "local"
    /\ spk_pc = "wait"
    /\ spk_pc' = IF speaking THEN "sdwait" ELSE "waiting"
    /\ spk_woken' = FALSE
    /\ UNCHANGED <<flagVars, convVars, segVars, audioVars, spk_clip, spk_words, spk_i,
                   inVars, outVars, now, restVars, histFixed>>
    /\ Track

\* speaker.py:57-60  the blocked wait returns: True when Event.set() woke it
\* (sd.stop, break), False when word_duration elapsed first.
SpeakerWaitReturn ==
    /\ frontend = "local"
    /\ spk_pc = "waiting"
    /\ spk_pc' = IF spk_woken THEN "sdwait" ELSE "chkexit"
    /\ spk_woken' = FALSE
    /\ UNCHANGED <<flagVars, convVars, segVars, audioVars, spk_clip, spk_words, spk_i,
                   inVars, outVars, now, restVars, histFixed>>
    /\ Track

\* speaker.py:61-62  if self.exit_event.is_set(): return
SpeakerCheckExit ==
    /\ frontend = "local"
    /\ spk_pc = "chkexit"
    /\ spk_pc' = IF exit THEN "done" ELSE "append"
    /\ UNCHANGED <<flagVars, convVars, segVars, audioVars, spk_clip, spk_words, spk_i,
                   spk_woken, inVars, outVars, now, restVars, histFixed>>
    /\ Track

\* speaker.py:56,63  self.conversation.append("assistant", word), next word
SpeakerAppend ==
    /\ frontend = "local"
    /\ spk_pc = "append"
    /\ messages' = ConvAppend(messages, "assistant", spk_words[spk_i + 1])
    /\ spk_i' = spk_i + 1
    /\ spk_pc' = IF spk_i + 1 = Len(spk_words) THEN "sdwait" ELSE "wait"
    /\ UNCHANGED <<flagVars, n_user, segVars, audioVars, spk_clip, spk_words,
                   spk_woken, inVars, outVars, now, restVars, histFixed>>
    /\ Track

\* speaker.py:66  sd.wait(), then the next turn of the loop
SpeakerSdWait ==
    /\ frontend = "local"
    /\ spk_pc = "sdwait"
    /\ spk_pc' = "loop"
    /\ spk_clip' = NoClip
    /\ spk_words' = <<>>
    /\ spk_i' = 0
    /\ UNCHANGED <<flagVars, convVars, segVars, audioVars, spk_woken, inVars, outVars,
                   now, restVars, histFixed>>
    /\ Track

----------------------------------------------------------------------------
(* TwIncoming.loop (tw_incoming.py), the telephony source *)

\* tw_incoming.py:51  while not self.exit_event.is_set()
TwIncomingLoop ==
    /\ frontend = "twilio"
    /\ in_pc = "loop"
    /\ in_pc' = IF exit THEN "done" ELSE "recv"
    /\ UNCHANGED <<flagVars, convVars, segVars, audioVars, spkVars, spk_woken,
                   stream_sid_queue, outVars, now, restVars, histFixed>>
    /\ Track

\* tw_incoming.py:53,57,37-38  a start event: its streamSid goes to the
\* outgoing stage
TwIncomingStart(sid) ==
    /\ frontend = "twilio"
    /\ in_pc = "recv"
    /\ Len(stream_sid_queue) < MaxSids
    /\ stream_sid_queue' = Append(stream_sid_queue, sid)
    /\ in_pc' = "loop"
    /\ UNCHANGED <<flagVars, convVars, segVars, audioVars, spkVars, spk_woken, outVars,
                   now, restVars, histFixed>>
    /\ Track

\* tw_incoming.py:53,57,33-35,40-47  a media event (its decoded frame goes to
\* the Segmenter's input queue, whose content the Segmenter's input stands
\* for) or an event of another type (ignored)
TwIncomingMedia ==
    /\ frontend = "twilio"
    /\ in_pc = "recv"
    /\ in_pc' = "loop"
    /\ UNCHANGED <<flagVars, convVars, segVars, audioVars, spkVars, spk_woken,
                   stream_sid_queue, outVars, now, restVars, histFixed>>
    /\ Track

\* tw_incoming.py:53,57,46-47  a stop event sets exit
TwIncomingStop ==
    /\ frontend = "twilio"
    /\ in_pc = "recv"
    /\ exit' = TRUE
    /\ stop_seen' = TRUE
    /\ in_pc' = "loop"
    /\ UNCHANGED <<speaking, convVars, segVars, audioVars, spkVars, spk_woken,
                   stream_sid_queue, outVars, now, restVars, stale_out, spk_userin,
                   spk_base, wq_hist>>
    /\ Track

\* tw_incoming.py:52-56  ws.recv() raises: set exit, continue
TwIncomingRecvError ==
    /\ frontend = "twilio"
    /\ in_pc = "recv"
    /\ exit' = TRUE
    /\ in_pc' = "loop"
    /\ UNCHANGED <<speaking, convVars, segVars, audioVars, spkVars, spk_woken,
                   stream_sid_queue, outVars, now, restVars, histFixed>>
    /\ Track

----------------------------------------------------------------------------
(* WordQueue and TwOutgoing.run (tw_outgoing.py), the telephony sink *)

\* time.monotonic() advances by one tick
Tick ==
    /\ frontend = "twilio"
    /\ now < MaxTime
    /\ now' = now + 1
    /\ UNCHANGED <<flagVars, convVars, segVars, audioVars, spkVars, spk_woken, inVars,
                   outVars, restVars, histFixed>>
    /\ Track

\* tw_outgoing.py:44-51  WordQueue.add_words: the queue after the call
AddWords(queue, text, len) ==
    LET words == Split(text)
        duration_per_word == len \div Max(Len(words), 1)
    IN  queue \o [i \in 1..Len(words) |->
                    [duration |-> duration_per_word, word |-> words[i]]]

\* tw_outgoing.py:106, 114  the two `while not self.exit_event.is_set()` tests
TwOutgoingLoop ==
    /\ frontend = "twilio"
    /\ out_pc \in {"sid_loop", "run_loop"}
    /\ out_pc' = IF out_pc = "sid_loop"
                 THEN (IF exit THEN "run_loop" ELSE "sid_get")
                 ELSE (IF exit THEN "done" ELSE "chk_speaking")
    /\ UNCHANGED <<flagVars, convVars, segVars, audioVars, spkVars, spk_woken, inVars,
                   stream_sid, word_queue, last_update_time, time_passed, out_clip,
                   ws_out, now, restVars, histFixed>>
    /\ Track

\* A mutation of the wait for the streamSid: an empty queue ends the wait.
TwOutgoingGetSidNoWait ==
    /\ frontend = "twilio"
    /\ out_pc = "sid_get"
    /\ IF stream_sid_queue = <<>>
       THEN /\ out_pc' = "run_loop"
            /\ UNCHANGED <<stream_sid, stream_sid_queue>>
       ELSE /\ stream_sid' = Head(stream_sid_queue)
            /\ stream_sid_queue' = Tail(stream_sid_queue)
            /\ out_pc' = "run_loop"
    /\ UNCHANGED <<flagVars, convVars, segVars, audioVars, spkVars, spk_woken, in_pc,
                   word_queue, last_update_time, time_passed, out_clip, ws_out, now,
                   restVars, histFixed>>
    /\ Track

\* tw_outgoing.py:107-111  stream_sid_queue.get(timeout=0.25)
TwOutgoingGetSid ==
    /\ frontend = "twilio"
    /\ out_pc = "sid_get"
    /\ IF stream_sid_queue = <<>>
       THEN /\ out_pc' = "sid_loop"
            /\ UNCHANGED <<stream_sid, stream_sid_queue>>
       ELSE /\ stream_sid' = Head(stream_sid_queue)
            /\ stream_sid_queue' = Tail(stream_sid_queue)
            /\ out_pc' = "run_loop"
    /\ UNCHANGED <<flagVars, convVars, segVars, audioVars, spkVars, spk_woken, in_pc,
                   word_queue, last_update_time, time_passed, out_clip, ws_out, now,
                   restVars, histFixed>>
    /\ Track

TwOutgoingCheckSpeakingKeepsQueue(ok) ==
    /\ frontend = "twilio"
    /\ out_pc = "chk_speaking"
    /\ ok
    /\ IF speaking
       THEN /\ out_pc' = "run_loop"
            /\ IF word_queue # <<>>
               THEN /\ ws_out' = Append(ws_out,
                            [event |-> "clear", streamSid |-> stream_sid, clip |-> 0])
                    /\ wq_hist' = [wq_hist EXCEPT !.purged = @ \cup Range(wq_hist.ids)]
               ELSE UNCHANGED <<ws_out, wq_hist>>
       ELSE /\ out_pc' = "update"
            /\ UNCHANGED <<ws_out, wq_hist>>
    /\ UNCHANGED <<flagVars, convVars, segVars, audioVars, spkVars, spk_woken, inVars,
                   stream_sid, word_queue, last_update_time, time_passed, out_clip, now,
                   restVars, stop_seen, stale_out, spk_userin, spk_base>>
    /\ Track

\* tw_outgoing.py:116-121, 96-101  speaking is set: with a non-empty word
\* queue send a clear frame (a failed send sets exit) and empty the queue;
\* sleep and continue. Else go on to the update.
TwOutgoingCheckSpeaking(ok) ==
    /\ frontend = "twilio"
    /\ out_pc = "chk_speaking"
    /\ IF speaking
       THEN /\ out_pc' = "run_loop"
            /\ IF word_queue # <<>>
               THEN /\ word_queue' = <<>>
                    /\ wq_hist' = [wq_hist EXCEPT !.ids = <<>>,
                                                   !.purged = @ \cup Range(wq_hist.ids)]
                    /\ IF ok
                       THEN /\ ws_out' = Append(ws_out,
                                    [event |-> "clear", streamSid |-> stream_sid, clip |-> 0])
                            /\ UNCHANGED exit
                       ELSE /\ exit' = TRUE
                            /\ UNCHANGED ws_out
               ELSE /\ ok
                    /\ UNCHANGED <<word_queue, ws_out, exit, wq_hist>>
       ELSE /\ ok
            /\ out_pc' = "update"
            /\ UNCHANGED <<word_queue, ws_out, exit, wq_hist>>
    /\ UNCHANGED <<speaking, convVars, segVars, audioVars, spkVars, spk_woken, inVars,
                   stream_sid, last_update_time, time_passed, out_clip, now, restVars,
                   stop_seen, stale_out, spk_userin, spk_base>>
    /\ Track

\* tw_outgoing.py:29-31  WordQueue.update reads the clock
TwOutgoingUpdate ==
    /\ frontend = "twilio"
    /\ out_pc = "update"
    /\ time_passed' = now - last_update_time
    /\ last_update_time' = now
    /\ out_pc' = "upd_loop"
    /\ wq_hist' = [wq_hist EXCEPT !.upd = [queue |-> word_queue, ids |-> wq_hist.ids,
                                            d |-> now - last_update_time,
                                            messages |-> messages,
                                            spoken |-> Len(wq_hist.spoken)]]
    /\ UNCHANGED <<flagVars, convVars, segVars, audioVars, spkVars, spk_woken, inVars,
                   stream_sid, word_queue, out_clip, ws_out, now, restVars,
                   stop_seen, stale_out, spk_userin, spk_base>>
    /\ Track

\* A mutation of the loop of WordQueue.update: a word whose duration exceeds the
\* time left is dropped instead of being put back with the rest of its duration.
TwOutgoingUpdateWordNoPutBack ==
    /\ frontend = "twilio"
    /\ out_pc = "upd_loop"
    /\ IF word_queue # <<>> /\ time_passed > 0
       THEN LET head == Head(word_queue)
                left == time_passed - head.duration
            IN  /\ time_passed' = left
                /\ word_queue' = Tail(word_queue)
                /\ IF left < 0
                   THEN /\ wq_hist' = [wq_hist EXCEPT !.ids = Tail(@)]
                        /\ UNCHANGED messages
                   ELSE /\ messages' = ConvAppend(messages, "assistant", head.word)
                        /\ wq_hist' = [wq_hist EXCEPT
                                          !.ids = Tail(@),
                                          !.spoken = Append(@, Head(wq_hist.ids))]
                /\ UNCHANGED out_pc
       ELSE /\ out_pc' = "get_clip"
            /\ time_passed' = 0
            /\ wq_hist' = [wq_hist EXCEPT !.upd = NoUpdate]
            /\ UNCHANGED <<word_queue, messages>>
    /\ UNCHANGED <<flagVars, n_user, segVars, audioVars, spkVars, spk_woken, inVars,
                   stream_sid, last_update_time, out_clip, ws_out, now, restVars,
                   stop_seen, stale_out, spk_userin, spk_base>>
    /\ Track

\* tw_outgoing.py:34-42  one turn of the while loop of WordQueue.update (each
\* Conversation.append takes the lock on its own)
TwOutgoingUpdateWord ==
    /\ frontend = "twilio"
    /\ out_pc = "upd_loop"
    /\ IF word_queue # <<>> /\ time_passed > 0
       THEN LET head == Head(word_queue)
                left == time_passed - head.duration
            IN  /\ time_passed' = left
                /\ IF left < 0
                   THEN /\ word_queue' = <<[duration |-> -left, word |-> head.word]>>
                                            \o Tail(word_queue)
                        /\ UNCHANGED <<messages, wq_hist>>
                   ELSE /\ word_queue' = Tail(word_queue)
                        /\ messages' = ConvAppend(messages, "assistant", head.word)
                        /\ wq_hist' = [wq_hist EXCEPT
                                          !.ids = Tail(@),
                                          !.spoken = Append(@, Head(wq_hist.ids))]
                /\ UNCHANGED out_pc
       ELSE /\ out_pc' = "get_clip"
            /\ time_passed' = 0
            /\ wq_hist' = [wq_hist EXCEPT !.upd = NoUpdate]
            /\ UNCHANGED <<word_queue, messages>>
    /\ UNCHANGED <<flagVars, n_user, segVars, audioVars, spkVars, spk_woken, inVars,
                   stream_sid, last_update_time, out_clip, ws_out, now, restVars,
                   stop_seen, stale_out, spk_userin, spk_base>>
    /\ Track

\* tw_outgoing.py:127-130  self.input_queue.get(timeout=0.25), Empty -> continue
TwOutgoingGetClip ==
    /\ frontend = "twilio"
    /\ out_pc = "get_clip"
    /\ IF audio_queue = <<>>
       THEN /\ out_pc' = "run_loop"
            /\ UNCHANGED <<audio_queue, out_clip>>
       ELSE /\ out_clip' = Head(audio_queue)
            /\ audio_queue' = Tail(audio_queue)
            /\ out_pc' = "send"
    /\ UNCHANGED <<flagVars, convVars, segVars, n_clips, spkVars, spk_woken, inVars,
                   stream_sid, word_queue, last_update_time, time_passed, ws_out, now,
                   restVars, histFixed>>
    /\ Track

\* tw_outgoing.py:133-141, 83-94, 44-51  send the clip as a media frame (a
\* failed send sets exit), then add its words to the word queue
TwOutgoingSend(ok) ==
    /\ frontend = "twilio"
    /\ out_pc = "send"
    /\ IF ok
       THEN /\ ws_out' = Append(ws_out, [event |-> "media", streamSid |-> stream_sid,
                                         clip |-> out_clip.id])
            /\ stale_out' = (stale_out \/ out_clip.stale)
            /\ UNCHANGED exit
       ELSE /\ exit' = TRUE
            /\ UNCHANGED <<ws_out, stale_out>>
    /\ last_update_time' = IF word_queue = <<>> THEN now ELSE last_update_time
    /\ word_queue' = AddWords(word_queue, out_clip.text, out_clip.len)
    /\ wq_hist' = [wq_hist EXCEPT !.ids = @ \o [i \in 1..Len(Split(out_clip.text)) |->
                                                 [clip |-> out_clip.id, k |-> i]]]
    /\ out_clip' = NoClip
    /\ out_pc' = "run_loop"
    /\ UNCHANGED <<speaking, convVars, segVars, audioVars, spkVars, spk_woken, inVars,
                   stream_sid, time_passed, now, restVars, stop_seen, spk_userin,
                   spk_base>>
    /\ Track

----------------------------------------------------------------------------
(* Spec: the sinks, the telephony source, the Conversation and the flags *)

\* The state after construction of the stages and queues
\* (main_local.py:29-96, main_twilio.py:52-125)
InitPipeline ==
    /\ speaking = FALSE
    /\ exit = FALSE
    /\ messages = <<>>
    /\ n_user = 0
    /\ seg_pc = "run"
    /\ recording = FALSE
    /\ speech_samples = 0
    /\ silence_samples = 0
    /\ audio_queue = <<>>
    /\ n_clips = 0
    /\ spk_pc = "loop"
    /\ spk_clip = NoClip
    /\ spk_words = <<>>
    /\ spk_i = 0
    /\ spk_woken = FALSE
    /\ in_pc = "loop"
    /\ out_pc = "sid_loop"
    /\ stream_sid_queue = <<>>
    /\ stream_sid = ""
    /\ word_queue = <<>>
    /\ last_update_time = 0
    /\ time_passed = 0
    /\ out_clip = NoClip
    /\ now = 0
    /\ ws_out = <<>>
    /\ stop_seen = FALSE
    /\ stale_out = FALSE
    /\ spk_disturbed = FALSE
    /\ spk_userin = FALSE
    /\ spk_base = <<>>
    /\ spk_k = -1
    /\ wq_hist = [ids |-> <<>>, purged |-> {}, spoken |-> <<>>, upd |-> NoUpdate]

IdleSeg ==
    /\ seg_in = <<>>
    /\ seg_buffer = <<>>
    /\ pre_buffer = <<>>
    /\ current_speech = <<>>
    /\ segment_queue = <<>>
    /\ n_samples = 0
    /\ seg_got = <<>>
    /\ seg_windows = <<>>
    /\ vad_max = 0
    /\ vad_run = [speech |-> FALSE, len |-> 0]

\* conversation.py:7-9  no call of append yet
IdleConv ==
    conv_call = [n |-> 0, before |-> <<>>, role |-> "none", content |-> <<>>]

\* transcriber.py:66  the Transcriber before its loop
IdleTr ==
    /\ tr_pc = "warmup"
    /\ tr_audio = <<>>
    /\ tr_attempt = 0
    /\ tr_hist = [n |-> 0, outcomes |-> <<>>, pushed |-> <<>>, exit_seen |-> FALSE]

\* synthesizer.py:97  the Synthesizer before its loop
IdleSyn ==
    /\ syn_pc = "warmup"
    /\ syn_text = <<>>
    /\ syn_attempt = 0
    /\ audio_array = 0
    /\ syn_hist = [n |-> 0, tries |-> 0, ok |-> FALSE, pushed |-> <<>>,
                   skipped |-> FALSE, stopped |-> "none"]

\* segmenter.py:70-79  no labelling of the input is fixed: detect_speech
\* may return any probability for a window
IdleVad ==
    vad_of = <<>>

MaxConn == 3        \* connections the server accepts in one run
ConnIds == 1..MaxConn

\* main_twilio.py:33, 194  the server before its first connection
IdleHttp ==
    /\ CLOSED_IDS = {}
    /\ conns = [id \in ConnIds |->
                  [pc |-> "new", path |-> <<>>, status |-> 0, pipeline |-> FALSE]]

\* The variables of the specifications of single stages, at rest
IdleExtra ==
    /\ IdleSeg
    /\ IdleConv
    /\ IdleTr
    /\ IdleSyn
    /\ IdleVad
    /\ IdleHttp

IdleSplit ==
    /\ split_pc = "idle"
    /\ split_text = <<>>
    /\ complete_sentences = <<>>
    /\ remaining_text = <<>>

IdleResp ==
    /\ res_pc = "idle"
    /\ transcript_queue = <<>>
    /\ user_message = <<>>
    /\ attempt = 0
    /\ response = <<>>
    /\ stream_rest = <<>>
    /\ fragment = <<>>
    /\ buffer = <<>>
    /\ response_queue = <<>>
    /\ res_pushed = <<>>
    /\ res_woken = FALSE
    /\ res_end = "none"
    /\ res_messages = <<>>
    /\ res_sent = <<>>

Init ==
    /\ frontend \in {"local", "twilio"}
    /\ InitPipeline
    /\ IdleSplit
    /\ IdleResp
    /\ IdleExtra

Next ==
    \/ SegmenterExit
    \/ \E is_speech \in BOOLEAN : SegmenterFrame(is_speech)
    \/ CtrlC
    \/ \E clip \in Clips : SynthesizerPut(clip)
    \/ \E t \in Transcripts : ResponderAppendUser(t)
    \/ SpeakerLoop
    \/ SpeakerGet
    \/ SpeakerCheck
    \/ SpeakerWaitEnter
    \/ SpeakerWaitReturn
    \/ SpeakerCheckExit
    \/ SpeakerAppend
    \/ SpeakerSdWait
    \/ TwIncomingLoop
    \/ \E sid \in Sids : TwIncomingStart(sid)
    \/ TwIncomingMedia
    \/ TwIncomingStop
    \/ TwIncomingRecvError
    \/ Tick
    \/ TwOutgoingLoop
    \/ TwOutgoingGetSid
    \/ \E ok \in BOOLEAN : TwOutgoingCheckSpeaking(ok)
    \/ TwOutgoingUpdate
    \/ TwOutgoingUpdateWord
    \/ TwOutgoingGetClip
    \/ \E ok \in BOOLEAN : TwOutgoingSend(ok)

Spec == Init /\ [][Next]_vars

----------------------------------------------------------------------------
(* Properties of the Conversation and the sinks, checked under Spec *)

\* C1: in every reachable state of the Conversation, whatever the
\* interleaving of user appends (Responder) and assistant appends (Sink), no
\* two adjacent entries of the message list have the same role.
C1_NoAdjacentSameRole ==
    \A i \in 1..(Len(messages) - 1) : messages[i].role # messages[i + 1].role

\* C1 witness: user and assistant appends have interleaved and one assistant
\* entry holds several appended words.
C1_Witness ==
    /\ Len(messages) >= 3
    /\ \E i \in DOMAIN messages :
          messages[i].role = "assistant" /\ Len(messages[i].content) >= 3

\* C6 as claimed: no step appends an assistant word to the Conversation in a
\* state where the speaking flag is set.
C6_NoAppendWhileSpeaking ==
    [][speaking => ~(messages' # messages /\ Last(messages').role = "assistant")]_vars

\* The words joined by single spaces
RECURSIVE JoinSingle(_)
JoinSingle(ws) ==
    IF ws = <<>> THEN <<>>
    ELSE IF Len(ws) = 1 THEN ws[1]
    ELSE ws[1] \o <<" ">> \o JoinSingle(Tail(ws))

\* The words joined onto a text by single spaces, with no space onto an empty
\* text and none before a word that begins with '.', '!', '?' or ','
RECURSIVE JoinOnto(_, _)
JoinOnto(acc, ws) ==
    IF ws = <<>> THEN acc
    ELSE JoinOnto(acc \o (IF acc = <<>> \/ ws[1][1] \in {".", "!", "?", ","}
                          THEN <<>> ELSE <<" ">>) \o ws[1],
                  Tail(ws))

\* The local sink has gone through the word loop of a clip with neither flag
\* set at any point of it and no user turn appended meanwhile.
C7_ClipPlayed ==
    /\ frontend = "local"
    /\ spk_pc = "sdwait"
    /\ ~spk_disturbed
    /\ ~spk_userin

C8_OnlyFirstK ==
    spk_k # -1 => spk_i = spk_k

\* C9 as claimed: a clip that was in AudioQ when speaking became set is never
\* played by the local sink and never sent as a media frame.
C9_StaleNeverOut ==
    ~stale_out

\* C10 as claimed: once TwIncoming has processed a stop event and set exit,
\* no media frame is sent on the WebSocket.
C10_NoMediaAfterStop ==
    [][(stop_seen /\ exit) =>
          ~(Len(ws_out') > Len(ws_out) /\ Last(ws_out').event = "media")]_vars

----------------------------------------------------------------------------
(* segment_text_by_regex (responder.py), the sentence splitter *)

\* The characters outside ASCII are written as their code points:
\* "u3002" is the ideographic full stop, "uFF01" the fullwidth exclamation
\* mark, "uFF1F" the fullwidth question mark.
END_PUNCTUATIONS ==
    << <<".">>, <<"!">>, <<"?">>, <<"u3002">>, <<"uFF01">>, <<"uFF1F">>,
       <<".", ".", ".">>, <<"u3002", "u3002", "u3002">> >>

ABBREVIATIONS ==
    << <<"M", "r", ".">>, <<"M", "r", "s", ".">>, <<"D", "r", ".">>,
       <<"P", "r", "o", "f", ".">>, <<"I", "n", "c", ".">>, <<"L", "t", "d", ".">>,
       <<"J", "r", ".">>, <<"S", "r", ".">>, <<"e", ".", "g", ".">>,
       <<"i", ".", "e", ".">>, <<"v", "s", ".">>, <<"S", "t", ".">>,
       <<"R", "d", ".">> >>

SetMin(S) == CHOOSE x \in S : \A y \in S : x <= y

\* responder.py:45-46  the pattern is (.*?(?:[ ... ])) with, between the
\* brackets, the escaped punctuations joined by "|". Between brackets this
\* is a set of characters: those of the punctuations (a backslash before a
\* character stands for the character) and the "|" that joins them.
PatternClass == {"|"} \cup UNION { Range(END_PUNCTUATIONS[i]) : i \in DOMAIN END_PUNCTUATIONS }

\* The end of the match of the pattern that begins at index start, or 0 when
\* there is none: .*? takes as few characters as possible, none of them a
\* newline, and the class takes one character.
MatchEnd(s, start) ==
    LET ends == { e \in start..Len(s) :
                     /\ s[e] \in PatternClass
                     /\ \A j \in start..(e - 1) : s[j] # "\n" }
    IN  IF ends = {} THEN 0 ELSE SetMin(ends)

\* responder.py:49,53  re.search(pattern, s) takes the leftmost index at
\* which a match begins; match.end(1), or 0 when there is no match
Search(s) ==
    LET starts == { b \in 1..Len(s) : MatchEnd(s, b) # 0 }
    IN  IF starts = {} THEN 0 ELSE MatchEnd(s, SetMin(starts))

\* responder.py:48-64  the while loop and the return
RECURSIVE SegLoop(_, _)
SegLoop(complete, remaining) ==
    IF remaining = <<>> THEN [sentences |-> complete, rest |-> remaining]
    ELSE LET end_pos == Search(remaining) IN
         IF end_pos = 0 THEN [sentences |-> complete, rest |-> remaining]
         ELSE LET potential_sentence == Strip(SubSeq(remaining, 1, end_pos))
                  after == LStrip(SubSeq(remaining, end_pos + 1, Len(remaining)))
              IN  IF \E i \in DOMAIN ABBREVIATIONS :
                         EndsWith(potential_sentence, ABBREVIATIONS[i])
                  THEN SegLoop(complete, after)
                  ELSE SegLoop(Append(complete, potential_sentence), after)

segment_first_only(text) ==
    LET remaining == Strip(text)
        end_pos == Search(remaining)
    IN  IF end_pos = 0 THEN [sentences |-> <<>>, rest |-> remaining]
        ELSE [sentences |-> <<Strip(SubSeq(remaining, 1, end_pos))>>,
              rest |-> LStrip(SubSeq(remaining, end_pos + 1, Len(remaining)))]

\* responder.py:28-64
segment_text_by_regex(text) ==
    IF text = <<>> THEN [sentences |-> <<>>, rest |-> <<>>]
    ELSE SegLoop(<<>>, Strip(text))

----------------------------------------------------------------------------
(* SpecSplit: segment_text_by_regex applied to bounded texts *)

\* The characters of the bounded texts: letters, the space, two terminal
\* punctuations and one other punctuation
Letters == {"a", "M", "r"}
Alphabet == Letters \cup {" ", ".", "?", "|"}

\* "Mr. Smith went home.", "Hi. How are you?", "a|b" and a text of two lines
SampleTexts ==
    { <<"M", "r", ".", " ", "S", "m", "i", "t", "h", " ", "w", "e", "n", "t", " ", "h", "o", "m", "e", ".">>,
      <<"H", "i", ".", " ", "H", "o", "w", " ", "a", "r", "e", " ", "y", "o", "u", "?">>,
      <<"a", "|", "b">>,
      <<"o", "n", "e", "\n", "t", "w", "o", ".", " ", "x">> }

Texts == (UNION { [1..n -> Alphabet] : n \in 0..MaxLen }) \cup SampleTexts

InitSplit ==
    /\ frontend = "local"
    /\ InitPipeline
    /\ IdleResp
    /\ IdleExtra
    /\ split_pc = "call"
    /\ split_text \in Texts
    /\ complete_sentences = <<>>
    /\ remaining_text = <<>>

\* responder.py:28-64  one call of segment_text_by_regex(split_text)
SegmentCall ==
    /\ split_pc = "call"
    /\ LET r == segment_text_by_regex(split_text) IN
          /\ complete_sentences' = r.sentences
          /\ remaining_text' = r.rest
    /\ split_pc' = "returned"
    /\ UNCHANGED <<flagVars, convVars, segVars, frontend, audioVars, spkVars, spk_woken,
                   inVars, outVars, now, split_text, respVars, res_woken, histVars,
                   extraVars>>

NextSplit == SegmentCall

SpecSplit == InitSplit /\ [][NextSplit]_vars

\* The terminal-punctuation characters
TerminalSet == {".", "!", "?", "u3002", "uFF01", "uFF1F"}

EndsWithAbbreviation(t) ==
    \E i \in DOMAIN ABBREVIATIONS : EndsWith(t, ABBREVIATIONS[i])

\* A text of the form <abbreviation> <words><terminal punctuation>: after the
\* abbreviation and one space come letters and spaces, beginning and ending
\* with a letter, then one terminal character, and the text does not itself
\* end with an abbreviation.
AbbreviationThenWords(t) ==
    \E i \in DOMAIN ABBREVIATIONS :
        LET head == ABBREVIATIONS[i] \o <<" ">>
            n    == Len(head)
        IN  /\ StartsWith(t, head)
            /\ Len(t) >= n + 2
            /\ t[Len(t)] \in TerminalSet
            /\ \A j \in (n + 1)..(Len(t) - 1) : t[j] \notin (PatternClass \cup {"\n", "\t"})
            /\ t[n + 1] # " " /\ t[Len(t) - 1] # " "
            /\ ~EndsWithAbbreviation(t)

\* C2 as claimed: for an input of the form <abbreviation> <words><terminal
\* punctuation> the splitter returns exactly one sentence, equal to the whole
\* input, and an empty remainder.
C2_AbbreviationKept ==
    (split_pc = "returned" /\ AbbreviationThenWords(split_text)) =>
        /\ complete_sentences = <<split_text>>
        /\ remaining_text = <<>>

\* C4 as claimed: every sentence the splitter returns as complete ends with
\* a character of the terminal-punctuation set and does not end with a listed
\* abbreviation.
C4_SentencesEndTerminal ==
    split_pc = "returned" =>
        \A i \in DOMAIN complete_sentences :
            /\ complete_sentences[i] # <<>>
            /\ Last(complete_sentences[i]) \in TerminalSet
            /\ ~EndsWithAbbreviation(complete_sentences[i])

----------------------------------------------------------------------------
(* Responder.loop (responder.py) *)

\* responder.py:70
MAX_RETRIES == 5

\* The texts the LLM may stream: "Hi. How are you?" and "a. b"
Responses ==
    { <<"H", "i", ".", " ", "H", "o", "w", " ", "a", "r", "e", " ", "y", "o", "u", "?">>,
      <<"a", ".", " ", "b">> }

\* The texts of the exceptions the LLM client may raise
Errors == { <<"e">> }

\* responder.py:145  f"Error: Failed after {self.MAX_RETRIES} attempts: {e}"
ErrorSentence(e) ==
    <<"E", "r", "r", "o", "r", ":", " ", "F", "a", "i", "l", "e", "d", " ", "a", "f", "t", "e", "r", " ", "5", " ", "a", "t", "t", "e", "m", "p", "t", "s", ":", " ">>
    \o e

\* What a step of the Responder leaves alone outside its own state
respRest == <<segVars, frontend, audioVars, spkVars, spk_woken, inVars, outVars, now,
              splitVars, histVars, extraVars, refVars>>

\* transcriber.py:86  the Transcriber puts a transcript on the Responder's
\* input queue
TranscriberPut(t) ==
    /\ n_user + Len(transcript_queue) + (IF res_pc = "append_user" THEN 1 ELSE 0) < MaxUser
    /\ transcript_queue' = Append(transcript_queue, t)
    /\ UNCHANGED <<flagVars, convVars, respRest, res_pc, user_message, attempt, response,
                   stream_rest, fragment, buffer, response_queue, res_woken,
                   res_pushed, res_end>>

\* responder.py:107  while not self.exit_event.is_set()
ResponderLoop ==
    /\ res_pc = "loop"
    /\ res_pc' = IF exit THEN "done" ELSE "get"
    /\ UNCHANGED <<flagVars, convVars, respRest, transcript_queue, user_message, attempt,
                   response, stream_rest, fragment, buffer, response_queue, res_woken,
                   res_pushed, res_end>>

\* responder.py:108-111  self.input_queue.get(True, 0.25), Empty -> continue
ResponderGet ==
    /\ res_pc = "get"
    /\ IF transcript_queue = <<>>
       THEN /\ res_pc' = "loop"
            /\ UNCHANGED <<transcript_queue, user_message>>
       ELSE /\ user_message' = Head(transcript_queue)
            /\ transcript_queue' = Tail(transcript_queue)
            /\ res_pc' = "append_user"
    /\ UNCHANGED <<flagVars, convVars, respRest, attempt, response, stream_rest,
                   fragment, buffer, response_queue, res_woken, res_pushed, res_end>>

\* conversation.py:30, 34  self.messages.copy(): a new list of references to
\* the records of self.messages. A record is named by its position in
\* self.messages, which only ever grows by append (reset is never called).
ListCopy(msgs) ==
    [i \in 1..Len(msgs) |-> i]

\* The contents of a list of references, as a reader of the list finds them
Deref(refs) ==
    [i \in 1..Len(refs) |-> messages[refs[i]]]

\* responder.py:113  messages = self.conversation.append("user", user_message)
ResponderAppend ==
    /\ res_pc = "append_user"
    /\ messages' = ConvAppend(messages, "user", user_message)
    /\ n_user' = n_user + 1
    /\ res_messages' = ListCopy(messages')
    /\ res_sent' = messages'
    /\ res_pc' = "chk_speaking"
    /\ UNCHANGED <<flagVars, segVars, frontend, audioVars, spkVars, spk_woken, inVars,
                   outVars, now, splitVars, histVars, extraVars, transcript_queue, user_message, attempt, response,
                   stream_rest, fragment, buffer, response_queue, res_woken,
                   res_pushed, res_end>>

ResponderCheckSpeakingIgnored ==
    /\ res_pc = "chk_speaking"
    /\ res_pc' = "chk_exit"
    /\ UNCHANGED <<flagVars, convVars, respRest, transcript_queue, user_message, attempt,
                   response, stream_rest, fragment, buffer, response_queue, res_woken,
                   res_pushed, res_end>>

\* responder.py:115-116  if self.speaking_event.is_set(): continue
ResponderCheckSpeaking ==
    /\ res_pc = "chk_speaking"
    /\ res_pc' = IF speaking THEN "loop" ELSE "chk_exit"
    /\ UNCHANGED <<flagVars, convVars, respRest, transcript_queue, user_message, attempt,
                   response, stream_rest, fragment, buffer, response_queue, res_woken,
                   res_pushed, res_end>>

\* responder.py:117-120  if self.exit_event.is_set(): return; else the first
\* attempt
ResponderCheckExit ==
    /\ res_pc = "chk_exit"
    /\ res_pc' = IF exit THEN "done" ELSE "stream_open"
    /\ attempt' = 0
    /\ UNCHANGED <<flagVars, convVars, respRest, transcript_queue, user_message,
                   response, stream_rest, fragment, buffer, response_queue, res_woken,
                   res_pushed, res_end>>

\* responder.py:121-128  self.client.messages.stream(...) raises, or opens a
\* stream that is to deliver the text r; buffer = ""
ResponderStreamOpen(r, ok) ==
    /\ res_pc = "stream_open"
    /\ IF ok
       THEN /\ response' = r
            /\ stream_rest' = r
            /\ buffer' = <<>>
            /\ res_pushed' = <<>>
            /\ res_end' = "none"
            /\ res_pc' = "stream_next"
       ELSE /\ r = CHOOSE x \in Responses : TRUE
            /\ res_end' = "error"
            /\ res_pc' = "except"
            /\ UNCHANGED <<response, stream_rest, buffer, res_pushed>>
    /\ UNCHANGED <<flagVars, convVars, respRest, transcript_queue, user_message, attempt,
                   fragment, response_queue, res_woken>>

\* responder.py:129  for text in stream.text_stream: the stream delivers the
\* next n characters as one fragment, ends, or raises (after it has delivered
\* at most MaxFailAfter characters)
ResponderStreamNext(n, ok) ==
    /\ res_pc = "stream_next"
    /\ IF ~ok
       THEN /\ n = 1
            /\ Len(response) - Len(stream_rest) <= MaxFailAfter
            /\ res_end' = "error"
            /\ res_pc' = "except"
            /\ UNCHANGED <<stream_rest, fragment>>
       ELSE IF stream_rest = <<>>
       THEN /\ n = 1
            /\ res_end' = "natural"
            /\ res_pc' = "flush"
            /\ UNCHANGED <<stream_rest, fragment>>
       ELSE /\ n <= Len(stream_rest)
            /\ fragment' = SubSeq(stream_rest, 1, n)
            /\ stream_rest' = SubSeq(stream_rest, n + 1, Len(stream_rest))
            /\ res_pc' = "tok_chk_speaking"
            /\ UNCHANGED res_end
    /\ UNCHANGED <<flagVars, convVars, respRest, transcript_queue, user_message, attempt,
                   response, buffer, response_queue, res_woken, res_pushed>>

\* responder.py:130-131  if self.speaking_event.is_set(): break
ResponderTokCheckSpeaking ==
    /\ res_pc = "tok_chk_speaking"
    /\ IF speaking
       THEN /\ res_end' = "broke"
            /\ res_pc' = "flush"
       ELSE /\ res_pc' = "tok_chk_exit"
            /\ UNCHANGED res_end
    /\ UNCHANGED <<flagVars, convVars, respRest, transcript_queue, user_message, attempt,
                   response, stream_rest, fragment, buffer, response_queue, res_woken,
                   res_pushed>>

\* responder.py:132-133  if self.exit_event.is_set(): return
ResponderTokCheckExit ==
    /\ res_pc = "tok_chk_exit"
    /\ res_pc' = IF exit THEN "done" ELSE "tok_proc"
    /\ UNCHANGED <<flagVars, convVars, respRest, transcript_queue, user_message, attempt,
                   response, stream_rest, fragment, buffer, response_queue, res_woken,
                   res_pushed, res_end>>

\* The non-empty entries of a sequence of texts, in order
RECURSIVE NonEmpty(_)
NonEmpty(ss) ==
    IF ss = <<>> THEN <<>>
    ELSE (IF Head(ss) # <<>> THEN <<Head(ss)>> ELSE <<>>) \o NonEmpty(Tail(ss))

\* responder.py:134-138  buffer += text; split it; put the complete sentences
ResponderTokProcess ==
    /\ res_pc = "tok_proc"
    /\ LET r == segment_text_by_regex(buffer \o fragment) IN
          /\ buffer' = r.rest
          /\ response_queue' = response_queue \o NonEmpty(r.sentences)
          /\ res_pushed' = res_pushed \o NonEmpty(r.sentences)
    /\ res_pc' = "stream_next"
    /\ UNCHANGED <<flagVars, convVars, respRest, transcript_queue, user_message, attempt,
                   response, stream_rest, fragment, res_woken, res_end>>

ResponderFlushNever ==
    /\ res_pc = "flush"
    /\ res_pc' = "loop"
    /\ UNCHANGED <<flagVars, convVars, respRest, transcript_queue, user_message, attempt,
                   response, stream_rest, fragment, buffer, response_queue, res_woken,
                   res_pushed, res_end>>

\* responder.py:139-141  after the for loop, however it ended:
\* if buffer.strip(): put it; then break out of the attempts
ResponderFlush ==
    /\ res_pc = "flush"
    /\ IF Strip(buffer) # <<>>
       THEN /\ response_queue' = Append(response_queue, Strip(buffer))
            /\ res_pushed' = Append(res_pushed, Strip(buffer))
       ELSE UNCHANGED <<response_queue, res_pushed>>
    /\ res_pc' = "loop"
    /\ UNCHANGED <<flagVars, convVars, respRest, transcript_queue, user_message, attempt,
                   response, stream_rest, fragment, buffer, res_woken, res_end>>

\* responder.py:142-147  except: on the last attempt put the error sentence;
\* speaking_event.wait(RETRY_DELAY) is entered: it returns True at once when
\* the flag is set (break), else the thread blocks
ResponderExcept(e) ==
    /\ res_pc = "except"
    /\ IF attempt = MAX_RETRIES - 1
       THEN response_queue' = Append(response_queue, ErrorSentence(e))
       ELSE UNCHANGED response_queue
    /\ res_pc' = IF speaking THEN "loop" ELSE "retry_wait"
    /\ res_woken' = FALSE
    /\ UNCHANGED <<flagVars, convVars, respRest, transcript_queue, user_message, attempt,
                   response, stream_rest, fragment, buffer, res_pushed, res_end>>

ResponderRetryWaitIgnoresWake ==
    /\ res_pc = "retry_wait"
    /\ IF attempt = MAX_RETRIES - 1
       THEN /\ res_pc' = "loop"
            /\ UNCHANGED attempt
       ELSE /\ res_pc' = "stream_open"
            /\ attempt' = attempt + 1
    /\ res_woken' = FALSE
    /\ UNCHANGED <<flagVars, convVars, respRest, transcript_queue, user_message,
                   response, stream_rest, fragment, buffer, response_queue, res_pushed,
                   res_end>>

\* responder.py:147-148, 120  the blocked wait returns: True when Event.set()
\* woke it (break), False when RETRY_DELAY elapsed first (the next attempt, if
\* there is one)
ResponderRetryWaitReturn ==
    /\ res_pc = "retry_wait"
    /\ IF res_woken \/ attempt = MAX_RETRIES - 1
       THEN /\ res_pc' = "loop"
            /\ UNCHANGED attempt
       ELSE /\ res_pc' = "stream_open"
            /\ attempt' = attempt + 1
    /\ res_woken' = FALSE
    /\ UNCHANGED <<flagVars, convVars, respRest, transcript_queue, user_message,
                   response, stream_rest, fragment, buffer, response_queue, res_pushed,
                   res_end>>

----------------------------------------------------------------------------
(* SpecResp: Responder.loop with the Transcriber's puts, the Segmenter's   *)
(* flag transitions and CTRL-C                                             *)

InitResp ==
    /\ frontend = "local"
    /\ InitPipeline
    /\ IdleSplit
    /\ IdleExtra
    /\ res_pc = "loop"
    /\ transcript_queue = <<>>
    /\ user_message = <<>>
    /\ attempt = 0
    /\ response = <<>>
    /\ stream_rest = <<>>
    /\ fragment = <<>>
    /\ buffer = <<>>
    /\ response_queue = <<>>
    /\ res_woken = FALSE
    /\ res_pushed = <<>>
    /\ res_end = "none"
    /\ res_messages = <<>>
    /\ res_sent = <<>>

NextResp ==
    \/ SegmenterExit
    \/ \E is_speech \in BOOLEAN : SegmenterFrame(is_speech)
    \/ CtrlC
    \/ \E t \in Transcripts : TranscriberPut(t)
    \/ ResponderLoop
    \/ ResponderGet
    \/ ResponderAppend
    \/ ResponderCheckSpeaking
    \/ ResponderCheckExit
    \/ \E r \in Responses, ok \in BOOLEAN : ResponderStreamOpen(r, ok)
    \/ \E n \in 1..MaxFragment, ok \in BOOLEAN : ResponderStreamNext(n, ok)
    \/ ResponderTokCheckSpeaking
    \/ ResponderTokCheckExit
    \/ ResponderTokProcess
    \/ ResponderFlush
    \/ \E e \in Errors : ResponderExcept(e)
    \/ ResponderRetryWaitReturn

SpecResp == InitResp /\ [][NextResp]_vars

----------------------------------------------------------------------------
(* Properties of the Responder, checked under SpecResp *)

\* What the Responder pushes for a text that arrives as one fragment: the
\* complete sentences, then the stripped remainder if it is not empty
OneShot(t) ==
    LET r == segment_text_by_regex(t)
    IN  NonEmpty(r.sentences) \o (IF Strip(r.rest) # <<>> THEN <<Strip(r.rest)>> ELSE <<>>)

\* C3 as claimed: when a stream has ended naturally and the buffer has been
\* flushed, the sentences pushed to SentQ for it are those pushed when the
\* whole text arrives as one fragment, however the text was cut; for
\* "Hi. How are you?" they are "Hi." and "How are you?", in that order.
C3_SameForEveryCut ==
    (res_pc = "loop" /\ res_end = "natural") =>
        /\ res_pushed = OneShot(response)
        /\ response = <<"H", "i", ".", " ", "H", "o", "w", " ", "a", "r", "e", " ", "y", "o", "u", "?">>
              => res_pushed = << <<"H", "i", ".">>, <<"H", "o", "w", " ", "a", "r", "e", " ", "y", "o", "u", "?">> >>

\* C5 as claimed: every entry a step of the Responder pushes to SentQ ends
\* with terminal punctuation or is the trailing fragment flushed after a
\* stream that ended naturally; the flush after a break on speaking pushes
\* nothing.
C5_TerminalOrTrailing ==
    [][\A i \in (Len(response_queue) + 1)..Len(response_queue') :
          \/ Last(response_queue'[i]) \in TerminalSet
          \/ res_pc = "flush" /\ res_end = "natural"]_vars

----------------------------------------------------------------------------
(* SpecLive: Spec with the scheduling of the stage threads. A thread that   *)
(* can take a step of its own eventually takes it: the queue reads and the  *)
(* waits of the Segmenter, the Speaker and TwOutgoing are bounded by        *)
(* timeouts. The steps that need the peer or the user to act (a message on  *)
(* the WebSocket, an audio window, CTRL-C, a clip or a transcript arriving) *)
(* carry no fairness; nor does TwIncoming's step out of ws.recv(), which    *)
(* has no timeout (tw_incoming.py:53).                                      *)

SpeakerStep ==
    \/ SpeakerLoop
    \/ SpeakerGet
    \/ SpeakerCheck
    \/ SpeakerWaitEnter
    \/ SpeakerWaitReturn
    \/ SpeakerCheckExit
    \/ SpeakerAppend
    \/ SpeakerSdWait

TwOutgoingStep ==
    \/ TwOutgoingLoop
    \/ TwOutgoingGetSid
    \/ \E ok \in BOOLEAN : TwOutgoingCheckSpeaking(ok)
    \/ TwOutgoingUpdate
    \/ TwOutgoingUpdateWord
    \/ TwOutgoingGetClip
    \/ \E ok \in BOOLEAN : TwOutgoingSend(ok)

SpecLive ==
    /\ Init
    /\ [][Next]_vars
    /\ WF_vars(SegmenterExit)
    /\ WF_vars(SpeakerStep)
    /\ WF_vars(TwIncomingLoop)
    /\ WF_vars(TwOutgoingStep)

\* The stage loops of the session that Spec holds have ended (a Speaker
\* thread ended by an exception has ended too)
StagesDone ==
    /\ seg_pc = "done"
    /\ frontend = "local" => spk_pc \in {"done", "crashed"}
    /\ frontend = "twilio" => in_pc = "done" /\ out_pc = "done"

\* C11 as claimed: once exit is set, the stage loops eventually terminate,
\* in both front-ends and whoever set exit, with no further message from the
\* peer and no further audio frame.
C11_ExitTerminatesStages ==
    exit ~> StagesDone

----------------------------------------------------------------------------
(* Segmenter.loop (segmenter.py) with its queues and buffers. A sample is   *)
(* its index in the stream the source delivers; a VAD probability is in     *)
(* tenths.                                                                  *)

\* segmenter.py:21-22
SPEECH_THRESHOLD == 4
PRE_SPEECH_BUFFER == 25

\* The VAD probabilities the model may return for a window: 0, 0.4 and 0.5
Probs == {0, 4, 5}

\* The frame sizes the source may deliver
FrameSizes == {1, window_size - 1, window_size, window_size + 1, 2 * window_size + 3}

IsSpeechAtLeast(speech_prob) == speech_prob >= SPEECH_THRESHOLD

\* segmenter.py:112
IsSpeech(speech_prob) == speech_prob > SPEECH_THRESHOLD

\* np.concatenate of a sequence of chunks
RECURSIVE Concat(_)
Concat(chunks) ==
    IF chunks = <<>> THEN <<>> ELSE Head(chunks) \o Concat(Tail(chunks))

WindowedNoCarry(carry, frame) ==
    LET sample_count == Len(frame)
    IN  IF sample_count < window_size
        THEN [full |-> FALSE, chunk |-> <<>>, buffer |-> frame]
        ELSE IF sample_count > window_size
        THEN [full |-> TRUE, chunk |-> SubSeq(frame, 1, window_size),
              buffer |-> SubSeq(frame, window_size + 1, sample_count)]
        ELSE [full |-> TRUE, chunk |-> frame, buffer |-> <<>>]

\* segmenter.py:93-108  the carry-over: the chunk the turn goes on with, if
\* there is a full window, and the buffer it leaves
Windowed(carry, frame) ==
    LET audio_chunk == carry \o frame
        sample_count == Len(audio_chunk)
    IN  IF sample_count < window_size
        THEN [full |-> FALSE, chunk |-> <<>>, buffer |-> audio_chunk]
        ELSE IF sample_count > window_size
        THEN [full |-> TRUE, chunk |-> SubSeq(audio_chunk, 1, window_size),
              buffer |-> SubSeq(audio_chunk, window_size + 1, sample_count)]
        ELSE [full |-> TRUE, chunk |-> audio_chunk, buffer |-> <<>>]

\* segmenter.py:58, 115  append to deque(maxlen=PRE_SPEECH_BUFFER)
DequeAppend(deque, chunk) ==
    IF Len(deque) < PRE_SPEECH_BUFFER THEN Append(deque, chunk)
    ELSE Append(Tail(deque), chunk)

\* The run of equal verdicts after one more window (its length is counted
\* up to SILENCE_LIMIT)
RunAfter(run, is_speech) ==
    IF run.len > 0 /\ run.speech = is_speech
    THEN [run EXCEPT !.len = IF @ < SILENCE_LIMIT THEN @ + 1 ELSE @]
    ELSE [speech |-> is_speech, len |-> 1]

\* What a step of the Segmenter or of its source leaves alone
segRest == <<exit, convVars, n_clips, spkVars, inVars, outVars, now, frontend,
             splitVars, respVars, histFixed, moreVars>>

\* microphone.py:37-44, tw_incoming.py:40-44  the source puts a frame of n
\* samples on the Segmenter's input queue
FramePut(n, budget) ==
    /\ Len(seg_in) < MaxFrames
    /\ n_samples + n <= budget
    /\ seg_in' = Append(seg_in, [i \in 1..n |-> n_samples + i])
    /\ n_samples' = n_samples + n
    /\ UNCHANGED <<flagVars, segVars, audio_queue, spk_woken, res_woken, seg_buffer,
                   pre_buffer, current_speech, segment_queue, seg_got, seg_windows,
                   vad_max, vad_run, segRest>>
    /\ Track

\* segmenter.py:83-130  one turn of the loop that finds exit clear and gets a
\* frame: the carry-over and, on a full window, the VAD (speech_prob is its
\* result), the pre-speech buffer and the state machine up to the put of the
\* utterance. The turn that puts an utterance goes on in SegmenterClear.
SegmenterTurn(speech_prob) ==
    /\ seg_pc = "run"
    /\ ~exit
    /\ seg_in # <<>>
    /\ LET w == Windowed(seg_buffer, Head(seg_in))
           is_speech == IsSpeech(speech_prob)
           h == Hysteresis(recording, speech_samples, silence_samples, is_speech)
       IN  /\ seg_in' = Tail(seg_in)
           /\ seg_got' = seg_got \o Head(seg_in)
           /\ seg_buffer' = w.buffer
           /\ IF ~w.full
              THEN /\ speech_prob = 0
                   /\ UNCHANGED <<speaking, segVars, audio_queue, spk_woken, res_woken,
                                  pre_buffer, current_speech, segment_queue,
                                  seg_windows, vad_max, vad_run>>
              ELSE /\ seg_windows' = Append(seg_windows, w.chunk)
                   /\ vad_max' = Max(vad_max, speech_prob)
                   /\ vad_run' = RunAfter(vad_run, is_speech)
                   /\ pre_buffer' = DequeAppend(pre_buffer, w.chunk)
                   /\ recording' = h.recording
                   /\ speech_samples' = h.speech_samples
                   /\ silence_samples' = h.silence_samples
                   /\ current_speech' =
                         IF h.event = "start" THEN DequeAppend(pre_buffer, w.chunk)
                         ELSE IF h.event = "end" THEN <<>>
                         ELSE IF recording THEN Append(current_speech, w.chunk)
                         ELSE current_speech
                   /\ segment_queue' =
                         IF h.event = "end"
                         THEN Append(segment_queue,
                                     Concat(Append(current_speech, w.chunk)))
                         ELSE segment_queue
                   /\ seg_pc' = IF h.event = "end" THEN "clear" ELSE "run"
                   /\ IF h.event = "start"
                      THEN /\ speaking' = TRUE
                           /\ spk_woken' = (spk_woken \/ spk_pc = "waiting")
                           /\ res_woken' = (res_woken \/ res_pc = "retry_wait")
                           /\ audio_queue' = [i \in DOMAIN audio_queue |->
                                                [audio_queue[i] EXCEPT !.stale = TRUE]]
                      ELSE UNCHANGED <<speaking, spk_woken, res_woken, audio_queue>>
    /\ UNCHANGED <<n_samples, segRest>>
    /\ Track

SegmenterClearEarly ==
    /\ seg_pc = "run"
    /\ recording
    /\ speaking
    /\ speaking' = FALSE
    /\ UNCHANGED <<seg_pc, recording, speech_samples, silence_samples, audio_queue,
                   spk_woken, res_woken, winVars, segRest>>
    /\ Track

\* segmenter.py:135  self.speaking_event.clear(), the end of the turn that
\* has put an utterance
SegmenterClear ==
    /\ seg_pc = "clear"
    /\ speaking' = FALSE
    /\ seg_pc' = "run"
    /\ UNCHANGED <<recording, speech_samples, silence_samples, audio_queue, spk_woken,
                   res_woken, winVars, segRest>>
    /\ Track

----------------------------------------------------------------------------
(* SpecSeg: the Segmenter fed window-sized frames; SpecWin: the Segmenter  *)
(* fed frames of mixed sizes                                                *)

InitSeg ==
    /\ frontend = "local"
    /\ InitPipeline
    /\ IdleSplit
    /\ IdleResp
    /\ IdleExtra

NextSeg ==
    \/ FramePut(window_size, MaxWindows * window_size)
    \/ \E speech_prob \in Probs : SegmenterTurn(speech_prob)
    \/ SegmenterClear
    \/ SegmenterExit
    \/ CtrlC

SpecSeg == InitSeg /\ [][NextSeg]_vars

NextWin ==
    \/ \E n \in FrameSizes : FramePut(n, MaxMixed)
    \/ \E speech_prob \in Probs : SegmenterTurn(speech_prob)
    \/ SegmenterClear
    \/ SegmenterExit
    \/ CtrlC

SpecWin == InitSeg /\ [][NextWin]_vars

----------------------------------------------------------------------------
(* The Segmenter on silent input                                            *)

\* C12: while every window so far has had a VAD probability of at most 0.4,
\* whatever the sizes of the frames, nothing is on the utterance queue and
\* speaking is clear
C12_SilentInputNoUtterance ==
    vad_max <= SPEECH_THRESHOLD => segment_queue = <<>> /\ ~speaking /\ ~recording

\* More windows than an utterance needs, one of them at exactly 0.4, a frame
\* that was cut into windows among them
C12_Witness ==
    /\ vad_max = SPEECH_THRESHOLD
    /\ Len(seg_windows) >= MIN_SPEECH_CHUNKS + SILENCE_LIMIT
    /\ seg_buffer # <<>>
    /\ ~speaking

----------------------------------------------------------------------------
(* The speaking flag around an utterance                                    *)

\* C13: speaking is set by the step that starts a recording and by no other,
\* it stays set while the Segmenter records, the step that puts an utterance
\* on the utterance queue finds it set and leaves it set, and it is cleared
\* only by the Segmenter's step that follows that put
C13_SpeakingCoversUtterance ==
    [][/\ recording' => speaking'
       /\ segment_queue' # segment_queue =>
             /\ speaking /\ speaking'
             /\ recording /\ seg_pc' = "clear"
       /\ ~speaking /\ speaking' => ~recording /\ recording'
       /\ speaking /\ ~speaking' =>
             /\ seg_pc = "clear" /\ seg_pc' = "run"
             /\ segment_queue' = segment_queue
             /\ segment_queue # <<>>]_vars

\* An utterance is on the queue and the flag has been cleared after it
C13_Witness ==
    /\ Len(segment_queue) = 1
    /\ seg_pc = "run"
    /\ ~speaking
    /\ ~recording

----------------------------------------------------------------------------
(* Window alignment                                                         *)

\* C14: the windows given to the VAD so far, followed by the carry-over
\* buffer, are the samples of the frames received so far, each once and in
\* order, and every window has window_size samples
C14_NoSampleLostOrRepeated ==
    /\ Concat(seg_windows) \o seg_buffer = seg_got
    /\ seg_got = [i \in 1..Len(seg_got) |-> i]
    /\ \A i \in 1..Len(seg_windows) : Len(seg_windows[i]) = window_size

\* Frames smaller and larger than a window have been received, and the
\* carry-over holds more than a window
C14_Witness ==
    /\ Len(seg_windows) >= 3
    /\ Len(seg_buffer) > window_size
    /\ Len(seg_got) % window_size # 0
    /\ seg_in # <<>>

----------------------------------------------------------------------------
(* The hysteresis of the Segmenter                                          *)

\* C15: a recording starts exactly on the window that makes
\* MIN_SPEECH_CHUNKS consecutive speech windows, it ends exactly on the
\* window that makes SILENCE_LIMIT consecutive non-speech windows, an
\* utterance is put exactly when a recording ends, and a speech window while
\* recording, or a non-speech window while idle, resets the other count
C15_HysteresisExact ==
    [][LET window == seg_windows' # seg_windows
           started == ~recording /\ recording'
           ended == recording /\ ~recording'
       IN  /\ started <=> /\ window /\ ~recording
                          /\ vad_run'.speech /\ vad_run'.len = MIN_SPEECH_CHUNKS
           /\ ended <=> /\ window /\ recording
                        /\ ~vad_run'.speech /\ vad_run'.len = SILENCE_LIMIT
           /\ ended => Len(segment_queue') = Len(segment_queue) + 1
           /\ ~ended => segment_queue' = segment_queue
           /\ window /\ recording /\ vad_run'.speech => silence_samples' = 0
           /\ window /\ ~recording /\ ~vad_run'.speech => speech_samples' = 0]_vars

\* Two recordings have ended, each with its utterance on the queue
C15_Witness ==
    /\ Len(segment_queue) = 2
    /\ ~recording
    /\ ~vad_run.speech /\ vad_run.len = SILENCE_LIMIT

----------------------------------------------------------------------------
(* SpecConv: Conversation.append called with any role and text              *)

hello == <<"h", "e", "l", "l", "o">>
world == <<"w", "o", "r", "l", "d">>
comma_world == <<",", " ">> \o world

\* The texts append is called with
ConvTexts == {hello, world, comma_world, <<"?">>, <<>>}

\* conversation.py:11-30
ConversationAppend(role, content) ==
    /\ conv_call.n < MaxAppends
    /\ messages' = ConvAppend(messages, role, content)
    /\ conv_call' = [n |-> conv_call.n + 1, before |-> messages, role |-> role,
                     content |-> content]
    /\ UNCHANGED <<flagVars, n_user, segVars, frontend, audioVars, spkVars, spk_woken,
                   inVars, outVars, now, splitVars, respVars, res_woken, histVars,
                   winVars, trVars, synVars, lateVars>>

InitConv == InitSeg

NextConv ==
    \E role \in {"user", "assistant"}, content \in ConvTexts :
        ConversationAppend(role, content)

SpecConv == InitConv /\ [][NextConv]_vars

\* C16: an append to a last entry of the same role with a non-empty text
\* leaves the number of entries as it was and makes that entry's text the old
\* text, one space and the new text, or the old text and the new text with
\* nothing between them when the new text starts with . ! ? or ,
C16_JoinedBySpaceUnlessPunctuation ==
    LET before == conv_call.before
        content == conv_call.content
    IN  (/\ conv_call.n > 0
         /\ before # <<>>
         /\ Last(before).role = conv_call.role
         /\ Last(before).content # <<>>) =>
            LET old == Last(before).content
                new == Last(messages).content
            IN  /\ Len(messages) = Len(before)
                /\ new = IF content # <<>> /\ content[1] \in {".", "!", "?", ","}
                         THEN old \o content
                         ELSE old \o <<" ">> \o content
                /\ old = hello /\ content = comma_world =>
                      new = <<"h", "e", "l", "l", "o", ",", " ", "w", "o", "r", "l", "d">>
                /\ old = hello /\ content = world =>
                      new = <<"h", "e", "l", "l", "o", " ", "w", "o", "r", "l", "d">>

\* "hello", then ", world", then "world" to one role
C16_Witness ==
    /\ conv_call.n = MaxAppends
    /\ conv_call.content = world
    /\ Len(messages) = 1
    /\ messages[1].content = hello \o comma_world \o <<" ">> \o world

----------------------------------------------------------------------------
(* SpecTr: Transcriber.loop (transcriber.py) between UttQ and TextQ         *)

\* transcriber.py:20
Transcriber_MAX_RETRIES == 3

\* The texts the ASR service may return: " hi ", " " and ""
AsrTexts == { <<" ", "h", "i", " ">>, <<" ">>, <<>> }

\* The outcome of an ASR request that raised
Raised == [ok |-> FALSE, text |-> <<"e">>]

\* The outcomes of one ASR request
AsrOutcomes == {[ok |-> TRUE, text |-> t] : t \in AsrTexts} \cup {Raised}

audio_to_text_unstripped(result_text) == result_text

\* transcriber.py:63-64  text = result.text.strip(); return text if text else
\* None (<<>> stands for None)
audio_to_text(result_text) == Strip(result_text)

\* transcriber.py:93  f"Transcription failed after {self.MAX_RETRIES} attempts: {str(e)}"
error_msg(e) ==
    <<"T", "r", "a", "n", "s", "c", "r", "i", "p", "t", "i", "o", "n", " ",
      "f", "a", "i", "l", "e", "d", " ", "a", "f", "t", "e", "r", " ", "3", " ",
      "a", "t", "t", "e", "m", "p", "t", "s", ":", " ">> \o e

\* What a step of the Transcriber or of its source leaves alone
trRest == <<flagVars, convVars, segVars, frontend, audioVars, spkVars, spk_woken, inVars,
            outVars, now, splitVars, res_woken, histVars, conv_call, synVars, lateVars,
            seg_in, seg_buffer,
            pre_buffer, current_speech, n_samples, seg_got, seg_windows, vad_max, vad_run,
            res_pc, user_message, attempt, response, stream_rest, fragment, buffer,
            response_queue, res_pushed, res_end, refVars>>

\* segmenter.py:130  the Segmenter puts an utterance on UttQ
UtterancePut ==
    /\ tr_hist.n + Len(segment_queue) < MaxUtterances
    /\ segment_queue' = Append(segment_queue, <<1>>)
    /\ UNCHANGED <<transcript_queue, trVars, trRest>>

\* transcriber.py:68-72  the warm-up request, whose failure is ignored
TranscriberWarmUp ==
    /\ tr_pc = "warmup"
    /\ tr_pc' = "loop"
    /\ UNCHANGED <<segment_queue, transcript_queue, tr_audio, tr_attempt, tr_hist, trRest>>

\* transcriber.py:74  while not self.exit_event.is_set()
TranscriberLoop ==
    /\ tr_pc = "loop"
    /\ tr_pc' = IF exit THEN "done" ELSE "get"
    /\ UNCHANGED <<segment_queue, transcript_queue, tr_audio, tr_attempt, tr_hist, trRest>>

\* transcriber.py:76-82  an utterance is dequeued and the attempts start
TranscriberGet ==
    /\ tr_pc = "get"
    /\ segment_queue # <<>>
    /\ tr_audio' = Head(segment_queue)
    /\ segment_queue' = Tail(segment_queue)
    /\ tr_attempt' = 0
    /\ tr_hist' = [n |-> tr_hist.n + 1, outcomes |-> <<>>, pushed |-> <<>>,
                   exit_seen |-> FALSE]
    /\ tr_pc' = "try"
    /\ UNCHANGED <<transcript_queue, trRest>>

\* transcriber.py:76-79  the get times out on an empty queue: continue
TranscriberEmpty ==
    /\ tr_pc = "get"
    /\ segment_queue = <<>>
    /\ tr_pc' = "loop"
    /\ UNCHANGED <<segment_queue, transcript_queue, tr_audio, tr_attempt, tr_hist, trRest>>

\* transcriber.py:83-94  one attempt: the request returns (the text is put if
\* it is not empty, and the for loop is left) or raises (the next attempt, or
\* after the last one the test of exit and the put of the error message)
TranscriberAttempt(outcome) ==
    /\ tr_pc = "try"
    /\ LET text == audio_to_text(outcome.text)
           last == ~(tr_attempt < Transcriber_MAX_RETRIES - 1)
           put == IF outcome.ok THEN (IF text # <<>> THEN <<text>> ELSE <<>>)
                  ELSE IF last /\ ~exit THEN <<error_msg(outcome.text)>>
                  ELSE <<>>
       IN  /\ transcript_queue' = transcript_queue \o put
           /\ tr_hist' = [tr_hist EXCEPT !.outcomes = Append(@, outcome),
                                          !.pushed = @ \o put,
                                          !.exit_seen = ~outcome.ok /\ last /\ exit]
           /\ tr_pc' = IF outcome.ok THEN "loop"
                       ELSE IF ~last THEN "try"
                       ELSE IF exit THEN "done" ELSE "loop"
           /\ tr_attempt' = IF ~outcome.ok /\ ~last THEN tr_attempt + 1 ELSE tr_attempt
    /\ UNCHANGED <<segment_queue, tr_audio, trRest>>

InitTr == InitSeg

NextTr ==
    \/ UtterancePut
    \/ TranscriberWarmUp
    \/ TranscriberLoop
    \/ TranscriberGet
    \/ TranscriberEmpty
    \/ \E outcome \in AsrOutcomes : TranscriberAttempt(outcome)
    \/ CtrlC

SpecTr == InitTr /\ [][NextTr]_vars

\* The Transcriber is through with the utterance it last dequeued
UtteranceSettled == tr_hist.n > 0 /\ tr_pc # "try"

\* What is put for an utterance whose last request returned result_text
PutForText(result_text) ==
    IF Strip(result_text) # <<>> THEN <<Strip(result_text)>> ELSE <<>>

\* C17 (as stated): at most 3 requests and at most one put for an utterance;
\* after a request that returned, the put is the trimmed text if that is not
\* empty and nothing otherwise; after 3 requests that raised, the put is the
\* error message
C17_OnePutPerUtterance ==
    /\ Len(tr_hist.outcomes) <= Transcriber_MAX_RETRIES
    /\ Len(tr_hist.pushed) <= 1
    /\ UtteranceSettled =>
          LET o == Last(tr_hist.outcomes)
          IN  IF o.ok THEN tr_hist.pushed = PutForText(o.text)
              ELSE /\ Len(tr_hist.outcomes) = Transcriber_MAX_RETRIES
                   /\ tr_hist.pushed = <<error_msg(o.text)>>

\* C17 (amended): as above, but after 3 requests that raised the put is the
\* error message only if exit is then clear; if exit is set nothing is put
\* and the loop returns
C17_OnePutUnlessExit ==
    /\ Len(tr_hist.outcomes) <= Transcriber_MAX_RETRIES
    /\ Len(tr_hist.pushed) <= 1
    /\ UtteranceSettled =>
          LET o == Last(tr_hist.outcomes)
          IN  IF o.ok THEN tr_hist.pushed = PutForText(o.text)
              ELSE /\ Len(tr_hist.outcomes) = Transcriber_MAX_RETRIES
                   /\ tr_hist.exit_seen => tr_hist.pushed = <<>> /\ tr_pc = "done"
                   /\ ~tr_hist.exit_seen => tr_hist.pushed = <<error_msg(o.text)>>

\* A first utterance has given "hi"; the 3 requests for a second one have
\* raised, the last of them with exit set
C17_Witness ==
    /\ tr_hist.n = 2
    /\ transcript_queue = << <<"h", "i">> >>
    /\ Len(tr_hist.outcomes) = Transcriber_MAX_RETRIES
    /\ tr_hist.exit_seen
    /\ tr_pc = "done"

----------------------------------------------------------------------------
(* More properties of the Responder, checked under SpecResp *)

\* C18: the step of the Responder that follows the natural end of a stream
\* pushes the trimmed buffer to SentQ if the buffer holds anything but
\* whitespace, and nothing otherwise; it is the last push for that response
C18_FlushAtNaturalEnd ==
    [][(res_pc = "flush" /\ res_end = "natural" /\ res_pc' # "flush") =>
          /\ response_queue' = response_queue \o
                (IF Strip(buffer) # <<>> THEN <<Strip(buffer)>> ELSE <<>>)
          /\ res_pc' = "loop"]_vars

\* A stream has ended naturally with a trailing fragment that has no terminal
\* punctuation, and the fragment is the last entry of SentQ
C18_Witness ==
    /\ res_pc = "loop"
    /\ res_end = "natural"
    /\ Strip(buffer) # <<>>
    /\ \A i \in 1..Len(buffer) : buffer[i] \notin TerminalSet
    /\ Len(response_queue) >= 2
    /\ Last(response_queue) = Strip(buffer)

----------------------------------------------------------------------------
(* The splitter applied to its own result, checked under SpecSplit *)

\* C19: when the splitter has returned (complete_sentences, remaining_text),
\* splitting remaining_text returns no sentence and remaining_text, and
\* splitting the complete sentences followed by remaining_text returns the
\* same sentences and the same remainder
C19_IdempotentOnRemainder ==
    split_pc = "returned" =>
        LET again == segment_text_by_regex(remaining_text)
            whole == segment_text_by_regex(Concat(complete_sentences) \o remaining_text)
        IN  /\ again.sentences = <<>>
            /\ again.rest = remaining_text
            /\ whole.sentences = complete_sentences
            /\ whole.rest = remaining_text

\* The splitter has returned two sentences and a remainder, from a text that
\* had whitespace it dropped
C19_Witness ==
    /\ split_pc = "returned"
    /\ Len(complete_sentences) = 2
    /\ remaining_text # <<>>
    /\ Len(Concat(complete_sentences) \o remaining_text) < Len(split_text)

\* The Responder has appended a transcript and is back at its loop without
\* a stream having been opened or refused for it
AbandonedTurn ==
    /\ n_user > 0
    /\ res_pc \in {"loop", "get"}
    /\ res_end = "none"

\* C20: the Responder's step after it has dequeued a transcript appends it to
\* the Conversation as a user turn and does nothing else; if speaking is set
\* when the Responder tests it after that append, the Responder goes back to
\* its loop, and from there until it has dequeued the next transcript it
\* makes no request to the LLM, pushes nothing to SentQ and leaves the
\* Conversation as it is
C20_AppendFirstThenAbandon ==
    [][/\ (res_pc = "append_user" /\ res_pc' # "append_user") =>
             /\ messages' = ConvAppend(messages, "user", user_message)
             /\ Last(messages').role = "user"
             /\ response_queue' = response_queue
             /\ res_pc' = "chk_speaking"
       /\ (res_pc = "chk_speaking" /\ speaking /\ res_pc' # "chk_speaking") =>
             /\ res_pc' = "loop"
             /\ messages' = messages
             /\ response_queue' = response_queue
             /\ response' = response
       /\ res_pc \in {"loop", "get"} =>
             /\ res_pc' \in {"loop", "get", "done", "append_user"}
             /\ messages' = messages
             /\ response_queue' = response_queue
             /\ response' = response]_vars

\* A transcript has been abandoned and speaking is still set
C20_Witness ==
    /\ AbandonedTurn
    /\ speaking
    /\ messages = <<[role |-> "user", content |-> user_message]>>
    /\ response = <<>>
    /\ response_queue = <<>>

----------------------------------------------------------------------------
(* The Responder's retries, checked under SpecResp *)

\* The step is the Responder's request for a stream
StreamRequested == res_pc = "stream_open" /\ res_pc' # "stream_open"

\* The step brings the Responder to a request for a stream
AttemptStarted == res_pc # "stream_open" /\ res_pc' = "stream_open"

\* C21: the attempts for a transcript are numbered from 0 and there are at
\* most 5 of them; the wait after a failed attempt, when it is woken by
\* speaking, is followed by no attempt; and the error sentence is pushed,
\* once, by the step that handles the failure of the fifth attempt and by no
\* other
C21_FiveAttemptsOneError ==
    [][/\ MAX_RETRIES = 5
       /\ StreamRequested => attempt < MAX_RETRIES
       /\ AttemptStarted =>
             \/ res_pc = "chk_exit" /\ attempt' = 0
             \/ res_pc = "retry_wait" /\ ~res_woken /\ attempt' = attempt + 1
       /\ (res_pc = "retry_wait" /\ res_woken /\ res_pc' # "retry_wait") =>
             res_pc' = "loop"
       /\ (res_pc = "except" /\ res_pc' # "except") =>
             IF attempt = MAX_RETRIES - 1
             THEN \E e \in Errors : response_queue' = Append(response_queue, ErrorSentence(e))
             ELSE response_queue' = response_queue
       /\ (\E e \in Errors, i \in 1..Len(response_queue') :
              /\ response_queue'[i] = ErrorSentence(e)
              /\ i > Len(response_queue)) =>
             res_pc = "except" /\ attempt = MAX_RETRIES - 1]_vars

\* Five attempts have failed and the error sentence is on SentQ
C21_Witness ==
    /\ attempt = MAX_RETRIES - 1
    /\ res_pc = "loop"
    /\ res_end = "error"
    /\ \E e \in Errors : response_queue = <<ErrorSentence(e)>>

\* C22 (the Responder's part): once exit is set, the Responder that handles
\* a failed attempt or waits after one starts no further attempt and pushes
\* nothing to SentQ
C22_NoRetryAfterExit ==
    [][(exit /\ res_pc \in {"except", "retry_wait"}) =>
          /\ res_pc' # "stream_open"
          /\ response_queue' = response_queue]_vars

----------------------------------------------------------------------------
(* SpecSyn: Synthesizer.loop (synthesizer.py) between SentQ and AudioQ,     *)
(* with the Segmenter's flag transitions and CTRL-C                         *)

\* synthesizer.py:115
Synthesizer_ATTEMPTS == 3

\* The sentences put on SentQ
Sentences == { <<"H", "i", ".">> }

\* The lengths, in samples, of the audio a TTS request may return
TtsLens == {2}

\* What a step of the Synthesizer or of its source leaves alone
synRest == <<flagVars, convVars, segVars, frontend, spkVars, spk_woken, inVars, outVars,
             now, splitVars, res_woken, histVars, winVars, conv_call, trVars, lateVars,
             res_pc, transcript_queue, user_message, attempt, response, stream_rest,
             fragment, buffer, res_pushed, res_end, refVars>>

\* responder.py:138  the Responder puts a sentence on SentQ
SentencePut(sentence) ==
    /\ syn_hist.n + Len(response_queue) < MaxSentences
    /\ response_queue' = Append(response_queue, sentence)
    /\ UNCHANGED <<audioVars, synVars, synRest>>

\* synthesizer.py:98-101  the warm-up request, whose failure is ignored
SynthesizerWarmUp ==
    /\ syn_pc = "warmup"
    /\ syn_pc' = "loop"
    /\ UNCHANGED <<response_queue, audioVars, syn_text, syn_attempt, audio_array,
                   syn_hist, synRest>>

\* synthesizer.py:103  while not self.exit_event.is_set()
SynthesizerLoop ==
    /\ syn_pc = "loop"
    /\ syn_pc' = IF exit THEN "done" ELSE "get"
    /\ UNCHANGED <<response_queue, audioVars, syn_text, syn_attempt, audio_array,
                   syn_hist, synRest>>

\* synthesizer.py:105-108  self.input_queue.get(True, 0.25), Empty -> continue
SynthesizerGet ==
    /\ syn_pc = "get"
    /\ IF response_queue = <<>>
       THEN /\ syn_pc' = "loop"
            /\ UNCHANGED <<response_queue, syn_text, syn_hist>>
       ELSE /\ syn_text' = Head(response_queue)
            /\ response_queue' = Tail(response_queue)
            /\ syn_hist' = [n |-> syn_hist.n + 1, tries |-> 0, ok |-> FALSE,
                            pushed |-> <<>>, skipped |-> FALSE, stopped |-> "none"]
            /\ syn_pc' = "chk_speaking"
    /\ UNCHANGED <<audioVars, syn_attempt, audio_array, synRest>>

\* synthesizer.py:110-115  if self.speaking_event.is_set(): continue; else
\* audio_array = None and the first attempt
SynthesizerCheckSpeaking ==
    /\ syn_pc = "chk_speaking"
    /\ IF speaking
       THEN /\ syn_pc' = "loop"
            /\ syn_hist' = [syn_hist EXCEPT !.skipped = TRUE]
            /\ UNCHANGED <<syn_attempt, audio_array>>
       ELSE /\ syn_pc' = "try"
            /\ syn_attempt' = 0
            /\ audio_array' = 0
            /\ UNCHANGED syn_hist
    /\ UNCHANGED <<response_queue, audioVars, syn_text, synRest>>

\* synthesizer.py:116-119  audio_array = self.text_to_audio(text): the request
\* returns len samples (break) or raises
SynthesizerAttempt(ok, len) ==
    /\ syn_pc = "try"
    /\ IF ok
       THEN /\ audio_array' = len
            /\ syn_pc' = "put"
       ELSE /\ len = CHOOSE l \in TtsLens : TRUE
            /\ syn_pc' = "failed_speaking"
            /\ UNCHANGED audio_array
    /\ syn_hist' = [syn_hist EXCEPT !.tries = @ + 1, !.ok = ok]
    /\ UNCHANGED <<response_queue, audioVars, syn_text, syn_attempt, synRest>>

SynthesizerFailedSpeakingIgnored ==
    /\ syn_pc = "failed_speaking"
    /\ syn_pc' = "failed_exit"
    /\ UNCHANGED <<response_queue, audioVars, syn_text, syn_attempt, audio_array,
                   syn_hist, synRest>>

\* synthesizer.py:120-121  if self.speaking_event.is_set(): break
SynthesizerFailedSpeaking ==
    /\ syn_pc = "failed_speaking"
    /\ IF speaking
       THEN /\ syn_pc' = "put"
            /\ syn_hist' = [syn_hist EXCEPT !.stopped = "speaking"]
       ELSE /\ syn_pc' = "failed_exit"
            /\ UNCHANGED syn_hist
    /\ UNCHANGED <<response_queue, audioVars, syn_text, syn_attempt, audio_array, synRest>>

\* synthesizer.py:122-124, 115  if self.exit_event.is_set(): return; continue:
\* the next attempt, or the end of the for loop after the last one
SynthesizerFailedExit ==
    /\ syn_pc = "failed_exit"
    /\ IF exit
       THEN /\ syn_pc' = "done"
            /\ syn_hist' = [syn_hist EXCEPT !.stopped = "exit"]
            /\ UNCHANGED syn_attempt
       ELSE /\ syn_pc' = IF syn_attempt + 1 < Synthesizer_ATTEMPTS THEN "try" ELSE "put"
            /\ syn_attempt' = syn_attempt + 1
            /\ UNCHANGED syn_hist
    /\ UNCHANGED <<response_queue, audioVars, syn_text, audio_array, synRest>>

\* synthesizer.py:126-127  if audio_array is not None: put (text, audio_array)
SynthesizerClipPut ==
    /\ syn_pc = "put"
    /\ IF audio_array # 0
       THEN LET clip == [id |-> n_clips + 1, text |-> syn_text, len |-> audio_array,
                         stale |-> FALSE]
            IN  /\ audio_queue' = Append(audio_queue, clip)
                /\ n_clips' = n_clips + 1
                /\ syn_hist' = [syn_hist EXCEPT !.pushed = Append(@, clip)]
       ELSE UNCHANGED <<audioVars, syn_hist>>
    /\ syn_pc' = "loop"
    /\ UNCHANGED <<response_queue, syn_text, syn_attempt, audio_array, synRest>>

InitSyn == InitSeg

NextSyn ==
    \/ SegmenterExit
    \/ \E is_speech \in BOOLEAN : SegmenterFrame(is_speech)
    \/ CtrlC
    \/ \E sentence \in Sentences : SentencePut(sentence)
    \/ SynthesizerWarmUp
    \/ SynthesizerLoop
    \/ SynthesizerGet
    \/ SynthesizerCheckSpeaking
    \/ \E ok \in BOOLEAN, len \in TtsLens : SynthesizerAttempt(ok, len)
    \/ SynthesizerFailedSpeaking
    \/ SynthesizerFailedExit
    \/ SynthesizerClipPut

SpecSyn == InitSyn /\ [][NextSyn]_vars

\* The Synthesizer is through with the sentence it last dequeued
SentenceSettled == syn_hist.n > 0 /\ syn_pc \in {"loop", "get", "done"}

\* C23: when the Synthesizer finds speaking set at its test after the
\* dequeue, it goes back to its loop with no request made and no clip put;
\* otherwise it makes at most 3 requests for the sentence; a failed request
\* after which it finds speaking or exit set is its last and no clip is put;
\* and when it is through with the sentence, one clip (sentence, samples) is
\* on AudioQ for it if a request succeeded and none if not, which without
\* speaking or exit is after 3 failed requests
C23_SkipRetryPut ==
    [][/\ (syn_pc = "chk_speaking" /\ speaking /\ syn_pc' # "chk_speaking") =>
             syn_pc' = "loop" /\ syn_hist'.tries = 0 /\ syn_hist'.pushed = <<>>
       /\ (syn_pc = "failed_speaking" /\ speaking /\ syn_pc' # "failed_speaking") =>
             syn_pc' = "put" /\ audio_array' = 0
       /\ (syn_pc = "failed_exit" /\ exit /\ syn_pc' # "failed_exit") =>
             syn_pc' = "done" /\ syn_hist'.pushed = <<>>
       /\ syn_hist'.tries <= Synthesizer_ATTEMPTS
       /\ Len(syn_hist'.pushed) <= 1
       /\ Len(audio_queue') - Len(audio_queue) = Len(syn_hist'.pushed) - Len(syn_hist.pushed)
             \/ syn_hist'.n # syn_hist.n
       /\ SentenceSettled' =>
             IF syn_hist'.ok
             THEN /\ Len(syn_hist'.pushed) = 1
                  /\ syn_hist'.pushed[1].text = syn_text'
                  /\ syn_hist'.pushed[1].len \in TtsLens
                  /\ Last(audio_queue').id = syn_hist'.pushed[1].id
             ELSE /\ syn_hist'.pushed = <<>>
                  /\ syn_hist'.stopped = "none" /\ ~syn_hist'.skipped =>
                        syn_hist'.tries = Synthesizer_ATTEMPTS]_vars

\* A first sentence has its clip on AudioQ; the 3 requests for a second one
\* have failed with speaking and exit clear
C23_Witness ==
    /\ SentenceSettled
    /\ syn_hist.n = MaxSentences
    /\ Len(audio_queue) = 1
    /\ syn_hist.tries = Synthesizer_ATTEMPTS
    /\ ~syn_hist.ok
    /\ syn_hist.stopped = "none"

----------------------------------------------------------------------------
(* The telephony sink's word queue, checked under Spec *)

\* The step is TwOutgoing's test of speaking, and finds it set
SpeakingObserved == out_pc = "chk_speaking" /\ speaking /\ out_pc' # "chk_speaking"

ClearFrame == [event |-> "clear", streamSid |-> stream_sid, clip |-> 0]

\* C24 (as stated): the step of TwOutgoing that finds speaking set sends one
\* clear frame and empties the word queue if the queue is not empty, and
\* sends nothing if it is empty; no purged entry is ever appended to the
\* Conversation
C24_ClearSentAndPurged ==
    [][/\ SpeakingObserved =>
             IF word_queue # <<>>
             THEN ws_out' = Append(ws_out, ClearFrame) /\ word_queue' = <<>>
             ELSE ws_out' = ws_out /\ word_queue' = <<>>
       /\ Range(wq_hist'.spoken) \cap wq_hist'.purged = {}]_vars

\* C24 (amended): as above, but the send of the clear frame may fail, in
\* which case no frame goes out and exit is set; the queue is emptied all the
\* same
C24_ClearTriedAndPurged ==
    [][/\ SpeakingObserved =>
             IF word_queue # <<>>
             THEN /\ word_queue' = <<>>
                  /\ wq_hist'.purged = wq_hist.purged \cup Range(wq_hist.ids)
                  /\ \/ ws_out' = Append(ws_out, ClearFrame) /\ exit' = exit
                     \/ ws_out' = ws_out /\ exit'
             ELSE ws_out' = ws_out /\ word_queue' = <<>> /\ exit' = exit
       /\ Range(wq_hist'.spoken) \cap wq_hist'.purged = {}
       /\ Range(wq_hist'.ids) \cap wq_hist'.purged = {}
       /\ Len(wq_hist'.ids) = Len(word_queue')]_vars

\* A word of the clip has been appended, the others have been purged, and
\* the clear frame has gone out
C24_Witness ==
    /\ wq_hist.spoken # <<>>
    /\ wq_hist.purged # {}
    /\ word_queue = <<>>
    /\ \E i \in 1..Len(ws_out) : ws_out[i].event = "clear"
    /\ out_pc = "run_loop"

----------------------------------------------------------------------------
(* SpecWQ: the telephony Sink with its WordQueue, clips of several words and
   a clock that advances by several time units between two updates *)

MaxWQClips == 2
MaxNow == 6
MaxElapse == 3

\* Clips whose words last two time units ("a", ",b", "c") and one time unit
\* ("d", "e"): len(audio_data) / sample_rate / len(words), tw_outgoing.py:47
WQClips == { [text |-> <<"a", " ", ",", "b", " ", "c">>, len |-> 6],
             [text |-> <<"d", " ", "e">>, len |-> 2] }

\* synthesizer.py:126-127  a clip is put on AudioQ
ClipPut(clip) ==
    /\ n_clips < MaxWQClips
    /\ n_clips' = n_clips + 1
    /\ audio_queue' = Append(audio_queue, [id |-> n_clips + 1, text |-> clip.text,
                                           len |-> clip.len, stale |-> FALSE])
    /\ UNCHANGED <<flagVars, convVars, segVars, spkVars, spk_woken, inVars, outVars,
                   now, restVars, histFixed>>
    /\ Track

\* tw_outgoing.py:29  time.time() between two reads: d time units pass
Elapse(d) ==
    /\ frontend = "twilio"
    /\ now + d <= MaxNow
    /\ now' = now + d
    /\ UNCHANGED <<flagVars, convVars, segVars, audioVars, spkVars, spk_woken, inVars,
                   outVars, restVars, histFixed>>
    /\ Track

InitWQ ==
    /\ frontend = "twilio"
    /\ InitPipeline
    /\ IdleSplit
    /\ IdleResp
    /\ IdleExtra

NextWQ ==
    \/ \E clip \in WQClips : ClipPut(clip)
    \/ \E d \in 1..MaxElapse : Elapse(d)
    \/ TwIncomingLoop
    \/ \E sid \in Sids : TwIncomingStart(sid)
    \/ TwOutgoingLoop
    \/ TwOutgoingGetSid
    \/ \E ok \in BOOLEAN : TwOutgoingCheckSpeaking(ok)
    \/ TwOutgoingUpdate
    \/ TwOutgoingUpdateWord
    \/ TwOutgoingGetClip
    \/ \E ok \in BOOLEAN : TwOutgoingSend(ok)

SpecWQ == InitWQ /\ [][NextWQ]_vars

\* The summed duration of the first j entries of a word queue
RECURSIVE SumDur(_, _)
SumDur(queue, j) ==
    IF j = 0 THEN 0 ELSE SumDur(queue, j - 1) + queue[j].duration

\* The length of the longest prefix of the queue whose summed duration is at
\* most d
LongestPrefix(queue, d) ==
    CHOOSE j \in 0..Len(queue) :
        /\ SumDur(queue, j) <= d
        /\ \A i \in 0..Len(queue) : SumDur(queue, i) <= d => i <= j

\* The Conversation after the words of the first j entries were appended in
\* order as assistant text
RECURSIVE AppendWords(_, _, _)
AppendWords(msgs, queue, j) ==
    IF j = 0 THEN msgs
    ELSE ConvAppend(AppendWords(msgs, queue, j - 1), "assistant", queue[j].word)

\* The loop of WordQueue.update has met its exit condition (tw_outgoing.py:34)
UpdateFinished ==
    /\ out_pc = "upd_loop"
    /\ ~(word_queue # <<>> /\ time_passed > 0)

\* C25: when WordQueue.update has run with d time units elapsed, the words
\* appended to the Conversation are those of the longest prefix of the queue
\* whose summed duration is at most d, in queue order; the next entry stays at
\* the head with its duration reduced by the unused part of d, the rest of the
\* queue is untouched, the summed duration drops by min(d, total), and no word
\* is appended twice.
C25_UpdateConsumesLongestPrefix ==
    /\ \A i, j \in 1..Len(wq_hist.spoken) : i # j => wq_hist.spoken[i] # wq_hist.spoken[j]
    /\ UpdateFinished =>
          LET u == wq_hist.upd
              n == Len(u.queue)
              total == SumDur(u.queue, n)
              k == LongestPrefix(u.queue, u.d)
              unused == u.d - SumDur(u.queue, k)
          IN  /\ u.d >= 0
              /\ SubSeq(wq_hist.spoken, u.spoken + 1, Len(wq_hist.spoken))
                    = SubSeq(u.ids, 1, k)
              /\ messages = AppendWords(u.messages, u.queue, k)
              /\ word_queue =
                    IF k = n THEN <<>>
                    ELSE <<[duration |-> u.queue[k + 1].duration - unused,
                            word |-> u.queue[k + 1].word]>>
                         \o SubSeq(u.queue, k + 2, n)
              /\ wq_hist.ids = SubSeq(u.ids, k + 1, n)
              /\ SumDur(word_queue, Len(word_queue))
                    = total - (IF u.d < total THEN u.d ELSE total)

\* C25 witness: an update has appended two words and put a third one back at
\* the head with a part of its duration.
C25_Witness ==
    /\ UpdateFinished
    /\ LongestPrefix(wq_hist.upd.queue, wq_hist.upd.d) >= 2
    /\ Len(wq_hist.upd.queue) > LongestPrefix(wq_hist.upd.queue, wq_hist.upd.d)
    /\ wq_hist.upd.d > SumDur(wq_hist.upd.queue,
                              LongestPrefix(wq_hist.upd.queue, wq_hist.upd.d))

----------------------------------------------------------------------------
(* SpecDrain: the Segmenter on frames of one and of two windows, next to a
   Segmenter that drains every complete window of a frame *)

MaxDrain == 56      \* samples the source delivers under SpecDrain
MaxBurst == 4       \* windows of the speech burst of a labelling

\* The frame sizes the source may deliver under SpecDrain
DrainSizes == {window_size, 2 * window_size}

\* segmenter.py:70-79, 111  the VAD as a function of the window: windows
\* first..last of the input are speech (probability 0.5), the others silence
Labelling(first, last) ==
    [k \in 1..(MaxDrain \div window_size) |-> IF first <= k /\ k <= last THEN 5 ELSE 0]

Labellings ==
    { Labelling(first, first + len - 1) : first \in 1..2, len \in 1..MaxBurst }

\* segmenter.py:83-130  the turn of the loop, the VAD returning the
\* probability of the window it is given
SegmenterLabelled ==
    /\ seg_in # <<>>
    /\ SegmenterTurn(IF Windowed(seg_buffer, Head(seg_in)).full
                     THEN vad_of[Len(seg_windows) + 1] ELSE 0)

InitDrain ==
    /\ frontend = "local"
    /\ InitPipeline
    /\ IdleSplit
    /\ IdleResp
    /\ IdleSeg
    /\ IdleConv
    /\ IdleTr
    /\ IdleSyn
    /\ IdleHttp
    /\ vad_of \in Labellings

NextDrain ==
    \/ \E n \in DrainSizes : FramePut(n, MaxDrain)
    \/ SegmenterLabelled
    \/ SegmenterClear
    \/ SegmenterExit
    \/ CtrlC

SpecDrain == InitDrain /\ [][NextDrain]_vars

\* The k-th window of the samples
WindowOf(samples, k) ==
    SubSeq(samples, (k - 1) * window_size + 1, k * window_size)

\* segmenter.py:110-135 applied to every complete window of the samples: the
\* state of a Segmenter that drains all complete windows of each frame after
\* the first k windows, with the utterances it has put
RECURSIVE DrainAll(_, _, _)
DrainAll(samples, labelling, k) ==
    IF k = 0
    THEN [recording |-> FALSE, speech_samples |-> 0, silence_samples |-> 0,
          pre_buffer |-> <<>>, current_speech |-> <<>>, output |-> <<>>, sets |-> 0]
    ELSE LET s == DrainAll(samples, labelling, k - 1)
             chunk == WindowOf(samples, k)
             h == Hysteresis(s.recording, s.speech_samples, s.silence_samples,
                             IsSpeech(labelling[k]))
             pre == DequeAppend(s.pre_buffer, chunk)
         IN  [recording |-> h.recording,
              speech_samples |-> h.speech_samples,
              silence_samples |-> h.silence_samples,
              pre_buffer |-> pre,
              current_speech |->
                  IF h.event = "start" THEN pre
                  ELSE IF h.event = "end" THEN <<>>
                  ELSE IF s.recording THEN Append(s.current_speech, chunk)
                  ELSE s.current_speech,
              output |->
                  IF h.event = "end"
                  THEN Append(s.output, Concat(Append(s.current_speech, chunk)))
                  ELSE s.output,
              sets |-> IF h.event = "start" THEN s.sets + 1 ELSE s.sets]

\* C26: once the Segmenter has taken every frame of the input, it has put the
\* utterances and set and cleared speaking as often as a Segmenter that drains
\* all complete windows of each frame.
C26_DrainAllEquivalent ==
    (seg_pc = "run" /\ seg_in = <<>>) =>
        LET d == DrainAll(seg_got, vad_of, Len(seg_got) \div window_size)
        IN  /\ segment_queue = d.output
            /\ recording = d.recording
            /\ Len(segment_queue) + (IF recording THEN 1 ELSE 0) = d.sets
            /\ speaking = d.recording

----------------------------------------------------------------------------
(* A clip without words at the sinks                                        *)

\* C27: a sink that is given a clip whose text has no word raises no error:
\* the thread of the sink is not ended by an exception.
C27_ZeroWordClipNoError ==
    spk_pc # "crashed"

----------------------------------------------------------------------------
(* SpecHttp: the server of main_twilio.py, its request hook and the first   *)
(* lines of its connection handler                                          *)

incoming_call == <<"/", "i", "n", "c", "o", "m", "i", "n", "g", "-", "c", "a", "l", "l">>
media_stream == <<"/", "m", "e", "d", "i", "a", "-", "s", "t", "r", "e", "a", "m">>

\* The paths of the requests the server receives
Paths == { incoming_call, media_stream, <<"/">>,
           Append(media_stream, "s"), Append(incoming_call, "s") }

httpRest == <<flagVars, convVars, segVars, frontend, audioVars, spkVars, spk_woken,
              inVars, outVars, now, splitVars, respVars, res_woken, histVars, winVars,
              conv_call, trVars, synVars, vad_of>>

\* main_twilio.py:155-187  on_request: the status of the response (0 for
\* None, the upgrade goes on) and whether the ID is added to CLOSED_IDS
on_request(path) ==
    IF StartsWith(path, incoming_call) THEN [status |-> 200, closed |-> TRUE]
    ELSE IF StartsWith(path, media_stream) THEN [status |-> 0, closed |-> FALSE]
    ELSE [status |-> 404, closed |-> TRUE]

\* main_twilio.py:155-187, 194  the server calls on_request for the upgrade
\* request of a new connection
OnRequest(id, path) ==
    /\ conns[id].pc = "new"
    /\ LET r == on_request(path)
       IN  /\ conns' = [conns EXCEPT ![id] = [pc |-> "answered", path |-> path,
                                               status |-> r.status, pipeline |-> FALSE]]
           /\ CLOSED_IDS' = IF r.closed THEN CLOSED_IDS \cup {id} ELSE CLOSED_IDS
    /\ UNCHANGED httpRest

\* main_twilio.py:36-57  handler: it returns at once for an ID in CLOSED_IDS
\* and removes the ID, else it creates the queues, events, stages and threads
Handler(id) ==
    /\ conns[id].pc = "answered"
    /\ IF id \in CLOSED_IDS
       THEN /\ CLOSED_IDS' = CLOSED_IDS \ {id}
            /\ conns' = [conns EXCEPT ![id].pc = "returned"]
       ELSE /\ conns' = [conns EXCEPT ![id].pc = "streaming", ![id].pipeline = TRUE]
            /\ UNCHANGED CLOSED_IDS
    /\ UNCHANGED httpRest

\* main_twilio.py:194  the server closes a connection it has answered over
\* HTTP without calling the handler
ConnClosed(id) ==
    /\ conns[id].pc = "answered"
    /\ conns[id].status # 0
    /\ conns' = [conns EXCEPT ![id].pc = "closed"]
    /\ UNCHANGED <<CLOSED_IDS, httpRest>>

InitHttp ==
    /\ frontend = "twilio"
    /\ InitPipeline
    /\ IdleSplit
    /\ IdleResp
    /\ IdleExtra

NextHttp ==
    \/ \E id \in ConnIds, path \in Paths : OnRequest(id, path)
    \/ \E id \in ConnIds : Handler(id)
    \/ \E id \in ConnIds : ConnClosed(id)

SpecHttp == InitHttp /\ [][NextHttp]_vars

\* C28: the pipeline is created for a connection only when the path of its
\* request is /media-stream; a connection with any other path is answered 200
\* (/incoming-call) or 404 and its ID is recorded, and the handler invoked for
\* it returns without a pipeline and removes the ID.
C28_PipelineOnlyForMediaStream ==
    \A id \in ConnIds :
        LET c == conns[id]
        IN  /\ c.pipeline => c.path = media_stream
            /\ (c.pc # "new" /\ c.path # media_stream) =>
                  /\ c.status = (IF c.path = incoming_call THEN 200 ELSE 404)
                  /\ c.pc \in {"answered", "closed"} => id \in CLOSED_IDS
                  /\ c.pc = "returned" => id \notin CLOSED_IDS
                  /\ c.pc # "streaming"

----------------------------------------------------------------------------
(* The streamSid of the frames the telephony sink sends                     *)

\* C29: the telephony sink has sent no frame while it has no streamSid, it
\* has none while it waits for it, and every media and clear frame it has
\* sent carries the streamSid it got from the incoming stage; so a sink that
\* finds exit set before a streamSid arrives sends nothing.
C29_NoFrameBeforeStreamSid ==
    /\ stream_sid = "" => ws_out = <<>>
    /\ out_pc \in {"sid_loop", "sid_get"} => stream_sid = ""
    /\ stream_sid # "" => stream_sid \in Sids
    /\ \A i \in 1..Len(ws_out) :
          /\ ws_out[i].event \in {"media", "clear"}
          /\ ws_out[i].streamSid = stream_sid

\* C29 witness: the sink has got the streamSid and has sent a media frame and
\* a clear frame.
C29_Witness ==
    /\ stream_sid \in Sids
    /\ \E i, j \in 1..Len(ws_out) :
          /\ ws_out[i].event = "media"
          /\ ws_out[j].event = "clear"
          /\ i < j

----------------------------------------------------------------------------
(* The samples of two utterances                                            *)

\* C30: the utterances the Segmenter has put are disjoint: no sample of the
\* input, hence no window, is in two of them.
C30_UtterancesDisjoint ==
    \A i, j \in 1..Len(segment_queue) :
        i < j => Range(segment_queue[i]) \cap Range(segment_queue[j]) = {}

----------------------------------------------------------------------------
(* SpecRetry: Responder.loop with an LLM stream that may raise after it has  *)
(* delivered any part of its text                                           *)

\* The text the LLM streams under SpecRetry: two sentences
RetryResponses == { <<"a", ".", " ", "b">> }

\* responder.py:129, 142  for text in stream.text_stream raises, whatever the
\* stream has delivered so far
ResponderStreamBreaks ==
    /\ res_pc = "stream_next"
    /\ res_end' = "error"
    /\ res_pc' = "except"
    /\ UNCHANGED <<flagVars, convVars, respRest, transcript_queue, user_message, attempt,
                   response, stream_rest, fragment, buffer, response_queue, res_woken,
                   res_pushed>>

NextRetry ==
    \/ SegmenterExit
    \/ \E is_speech \in BOOLEAN : SegmenterFrame(is_speech)
    \/ CtrlC
    \/ \E t \in Transcripts : TranscriberPut(t)
    \/ ResponderLoop
    \/ ResponderGet
    \/ ResponderAppend
    \/ ResponderCheckSpeaking
    \/ ResponderCheckExit
    \/ \E r \in RetryResponses, ok \in BOOLEAN : ResponderStreamOpen(r, ok)
    \/ \E n \in 1..MaxFragment : ResponderStreamNext(n, TRUE)
    \/ ResponderStreamBreaks
    \/ ResponderTokCheckSpeaking
    \/ ResponderTokCheckExit
    \/ ResponderTokProcess
    \/ ResponderFlush
    \/ \E e \in Errors : ResponderExcept(e)
    \/ ResponderRetryWaitReturn

SpecRetry == InitResp /\ [][NextRetry]_vars

\* C31: for the one transcript of a run, no sentence is on SentQ twice: what
\* a failed attempt has pushed is not pushed again by the retry.
C31_SentencePushedOnce ==
    \A i, j \in 1..Len(response_queue) :
        i < j => response_queue[i] # response_queue[j]

----------------------------------------------------------------------------
(* SpecHist: Responder.loop next to a sink that appends assistant words to   *)
(* the Conversation, with CTRL-C; speaking stays clear                      *)

\* The text the LLM streams under SpecHist
HistResponses == { <<"b", ".">> }

\* The words a sink appends (speaker.py:63, tw_outgoing.py:42)
HistWords == { world, comma_world }

NextHist ==
    \/ CtrlC
    \/ \E t \in Transcripts : TranscriberPut(t)
    \/ \E word \in HistWords : ConversationAppend("assistant", word)
    \/ ResponderLoop
    \/ ResponderGet
    \/ ResponderAppend
    \/ ResponderCheckSpeaking
    \/ ResponderCheckExit
    \/ \E r \in HistResponses : ResponderStreamOpen(r, TRUE)
    \/ \E n \in 1..MaxFragment : ResponderStreamNext(n, TRUE)
    \/ ResponderStreamBreaks
    \/ ResponderTokCheckSpeaking
    \/ ResponderTokCheckExit
    \/ ResponderTokProcess
    \/ ResponderFlush
    \/ \E e \in Errors : ResponderExcept(e)
    \/ ResponderRetryWaitReturn

SpecHist == InitResp /\ [][NextHist]_vars

\* The Responder is between its append of the user turn and the end of the
\* turn of its loop (responder.py:113-148)
InCall ==
    res_pc \in {"chk_speaking", "chk_exit", "stream_open", "stream_next",
                "tok_chk_speaking", "tok_chk_exit", "tok_proc", "flush", "except",
                "retry_wait"}

\* The text p occurs in the text t
Contains(t, p) ==
    \E i \in 1..(Len(t) - Len(p) + 1) : SubSeq(t, i, i + Len(p) - 1) = p

\* C32: from the append of the user turn to the end of the streaming call and
\* its retries, the list the Responder passes to the LLM ends with a user turn
\* that contains the transcript just dequeued, and its contents are those it
\* had when append returned it, whatever the sink appends meanwhile.
C32_HistoryEndsWithUserAndIsStable ==
    InCall =>
        LET history == Deref(res_messages)
        IN  /\ history # <<>>
            /\ Last(history).role = "user"
            /\ Contains(Last(history).content, user_message)
            /\ history = res_sent

\* C32 witness: a retry is about to open its stream, the list holds an
\* assistant turn and the user turn, and the sink has appended to the
\* Conversation since the list was returned.
C32_Witness ==
    /\ res_pc = "stream_open"
    /\ attempt >= 1
    /\ Len(res_messages) >= 2
    /\ Len(messages) > Len(res_messages)

====
